---- MODULE Spec2Model ----
(***************************************************************************)
(* Download coordination and local persistence of vm-tui.                  *)
(*                                                                         *)
(*   Spec        the DownloadManager singleton (downloadContext): start    *)
(*               calls, the Executor's progress callbacks and outcomes,    *)
(*               the ledger write that follows a success, notification     *)
(*               timers and batch progress.  Every await of the source is  *)
(*               a separate step, so calls interleave exactly where the    *)
(*               event loop lets them.  FairSpec adds that the Executor    *)
(*               terminates; CollisionSpec allows one more call.           *)
(*   LedgerSpec  the download ledger (downloadTracker): markAsDownloaded,  *)
(*               getDownloadRecord, getDownloadedMatches and               *)
(*               removeDownloadRecord over the persisted record list and   *)
(*               the files the records point at, again one step per await. *)
(*   ExecSpec    one call of downloadVideo / downloadDVW (download.ts): the *)
(*               pre-check, the request, the write stream that opens in    *)
(*               the background, the throttled progress and the cleanup.   *)
(*   ThrottleSpec  throttle(fn, wait) against a clock, its timer running   *)
(*               at its due time or later.                                 *)
(*   BatchSpec   bulkDownload (contentChecker.ts): the loops over items    *)
(*               and selected kinds, one pair at a time, and the summary.  *)
(*               AgainSpec runs a batch of one item a second time.         *)
(*   CompletionSpec  the start calls on a coordinator whose list of recent *)
(*               completions was filled by earlier downloads.              *)
(*   ListenerSpec  one start call with listeners that subscribe and dispose*)
(*               between its steps.                                        *)
(*   NotifySpec  addNotification and clearNotification called from outside,*)
(*               timers that run in any order, and listeners.              *)
(*   OverlapSpec  a batch of one item next to a start call on the          *)
(*               coordinator.                                              *)
(*   TrailingSpec  start calls of one item whose throttled progress may be *)
(*               delivered by the throttle's timer.                        *)
(*   TargetSpec  generateVideoFilename and sanitizeFilename for two items  *)
(*               with different ids, and their video downloads into one    *)
(*               directory.                                                *)
(*   SnapshotSpec  the progress object of one call of downloadVideo /      *)
(*               downloadDVW and the snapshots its callback receives, for  *)
(*               any Content-Length and any chunk sizes.                   *)
(***************************************************************************)
EXTENDS Integers, Sequences, FiniteSets, TLC

(***************************************************************************)
(* Program constants                                                       *)
(***************************************************************************)
\* const dvwKey = match.id + 1000000
KeyOffset == 1000000
\* if (this.recentCompletions.length > 5) this.recentCompletions.pop()
MaxRecent == 5

(***************************************************************************)
(* Bounds of the model                                                     *)
(***************************************************************************)
\* smallest match id of the model; BaseId + KeyOffset is a match id too
BaseId == 5
\* number of start calls made on the coordinator under Spec and FairSpec
MaxCalls == 2
\* number of start calls made under CollisionSpec
MaxCollisionCalls == 3
\* number of ledger operations started in LedgerSpec
MaxOps == 2
\* number of chunks a response body delivers at most in ExecSpec and
\* SnapshotSpec
MaxChunks == 2
\* ThrottleSpec: the wait argument of throttle, in clock ticks; the last
\* tick of the clock; the number of calls of the throttled function
Wait == 2
MaxTime == 8
MaxThrottleCalls == 3
\* number of items of a batch in BatchSpec
MaxItems == 2
\* number of listeners that subscribe in ListenerSpec and NotifySpec
MaxListeners == 2
\* number of notification timers pending at a time in NotifySpec
MaxPending == 3

MatchIds == {BaseId, BaseId + KeyOffset}
ContentTypes == {"video", "dvw"}
\* the messages passed to addNotification and clearNotification in NotifySpec
Messages == {"Session expired", "Copied path"}
\* the listeners, numbered in the order they subscribe
Listeners == 1..MaxListeners
\* the start calls of the model; a specification makes the first few of them
Calls == 1..(IF MaxCalls > MaxCollisionCalls THEN MaxCalls
                                               ELSE MaxCollisionCalls)
\* download directories: DEFAULT_DOWNLOAD_DIR and a customFolder below it
DefaultDir == "VM-TUI"
CustomDir == "VM-TUI/bulk"

NoPath == <<>>
\* path.join(downloadDir, filename): the filename is derived from the match
\* (video) or carried by the DVWInfo of the match (dvw)
TargetPath(dir, m, k) == <<dir, m, k>>

\* DownloadResult of the Executor
Success(fp) == [success |-> TRUE, filepath |-> fp, error |-> ""]
Failure(e) == [success |-> FALSE, filepath |-> NoPath, error |-> e]
NoResult == [success |-> FALSE, filepath |-> NoPath, error |-> "(unresolved)"]

\* error messages
ExecError == "HTTP 404: Not Found"
ExecException == "TypeError"
LedgerException == "ENOSPC"
AlreadyDownloading(k) ==
    IF k = "video" THEN "Already downloading this video"
                   ELSE "Already downloading this DVW file"

VARIABLES
    \* DownloadManager fields
    activeDownloads,    \* Map<number, ActiveDownload>: function key -> entry
    recentCompletions,  \* CompletedDownload[]
    notifications,      \* string[]
    batchProgress,      \* <<>> for null, <<[current, total]>> otherwise
    listeners,          \* Set<DownloadManagerListener>, in insertion order
    \* the subscribers
    heard,              \* per listener: how often the last step invoked it,
                        \* the state it received last, and whether its
                        \* disposer was called
    \* runtime
    timers,             \* pending setTimeout callbacks of addNotification
    last,               \* the last step: the result it returned to a
                        \* caller, the notify() calls it made
    calls,              \* per start call: position, arguments, locals
    \* downloadTracker
    ledger,             \* downloads.json: the persisted record list
    files,              \* per filepath: "missing" | "empty" | "valid", and
                        \* "partial" while a transfer is writing it
    ops,                \* per ledger operation: position, arguments, locals
    lastOp,             \* what a ledger operation returned in the last step
    ledgerFile,         \* what the ledger's backing file holds: "ok" for the
                        \* serialized list `ledger`, or a damaged condition
    \* download.ts
    xfer,               \* one call of downloadVideo / downloadDVW: position,
                        \* locals, its write stream and its throttle
    \* throttle.ts
    thr,                \* one throttled function: the clock, the closure's
                        \* lastCall, lastArgs and timeoutId, the calls made
                        \* and the invocations of fn
    \* contentChecker.ts
    batch               \* one call of bulkDownload: position, arguments,
                        \* locals, and the network requests it issued

coordVars == <<activeDownloads, recentCompletions, notifications,
               batchProgress, listeners, heard, timers, last, calls>>
ledgerVars == <<ledger, files, ops, lastOp, ledgerFile>>
engineVars == <<xfer, thr, batch>>
vars == <<activeDownloads, recentCompletions, notifications, batchProgress,
          listeners, heard, timers, last, calls, ledger, files, ops, lastOp,
          ledgerFile, xfer, thr, batch>>

(***************************************************************************)
(* Helpers on sequences                                                    *)
(***************************************************************************)
RECURSIVE IndexOfFrom(_, _, _)
IndexOfFrom(s, x, i) ==
    IF i > Len(s) THEN 0
    ELSE IF s[i] = x THEN i ELSE IndexOfFrom(s, x, i + 1)

\* Array.prototype.indexOf, 1-based; 0 when absent
IndexOf(s, x) == IndexOfFrom(s, x, 1)

\* Array.prototype.splice(idx, 1)
Splice(s, i) == SubSeq(s, 1, i - 1) \o SubSeq(s, i + 1, Len(s))

Range(s) == {s[i] : i \in 1..Len(s)}

(***************************************************************************)
(* DownloadManager                                                         *)
(***************************************************************************)
\* the key under which startDownload / startDVWDownload store their entry
VideoKey(m) == m
DVWKey(m) == m + KeyOffset
DownloadKey(m, k) == IF k = "video" THEN VideoKey(m) ELSE DVWKey(m)

\* isDownloadingContent: scans the values of the map
HasEntryFor(map, m, k) ==
    \E key \in DOMAIN map :
        /\ map[key].matchId = m
        /\ map[key].contentType = k

IsDownloadingContent(m, k) == HasEntryFor(activeDownloads, m, k)

\* a delete that removes nothing
MapDeleteNothing(map, key) == map

\* Map.set / Map.delete
MapSet(map, key, v) ==
    [x \in (DOMAIN map) \cup {key} |-> IF x = key THEN v ELSE map[x]]
MapDelete(map, key) == [x \in (DOMAIN map) \ {key} |-> map[x]]
EmptyMap == [x \in {} |-> 0]

\* notification messages
DownloadedMsg(m, k) ==
    [text |-> "Downloaded", kind |-> k, matchId |-> m, error |-> ""]
FailedMsg(k, e) ==
    [text |-> "Download failed", kind |-> k, matchId |-> 0, error |-> e]

(***************************************************************************)
(* Initial state                                                           *)
(***************************************************************************)
\* a start call that was not made yet, and one that has returned
IdleCall ==
    [pc |-> "idle", matchId |-> 0, kind |-> "video", exec |-> "init",
     data |-> <<>>, execResult |-> NoResult]
DoneCall == [IdleCall EXCEPT !.pc = "done"]

\* what the last step did: the DownloadResult it returned to the caller of a
\* no call of addNotification / clearNotification and no timeout
NoCall == [op |-> "none", message |-> "", found |-> FALSE, timer |-> 0]

\* start call (NoResult when no call returned) and its notify() calls
Step(r, n) == [result |-> r, notifyCalls |-> n, call |-> NoCall]

\* a step of the notification interface: the call or callback that ran, its
\* message, whether indexOf found the message, and the notify() calls; for a
\* timeout, timer is the place the timer had among the pending ones
NotificationStep(op, msg, found, n) ==
    [result |-> NoResult, notifyCalls |-> n,
     call |-> [op |-> op, message |-> msg, found |-> found, timer |-> 0]]

\* getState(): copies of the four fields
GetState ==
    [activeDownloads |-> activeDownloads,
     recentCompletions |-> recentCompletions,
     notifications |-> notifications,
     batchProgress |-> batchProgress]

\* a listener that was never invoked
NotHeard ==
    [times |-> 0, pos |-> 0, via |-> "none", state |-> <<>>,
     subscribed |-> FALSE, disposed |-> FALSE]

\* notify(), as often as the step called it: every listener of the set is
\* invoked with getState().  The last call of a step comes after the step's
\* last change, when the step calls notify at all, so the state a listener
\* holds at the end of the step is the state at the end of the step.
Delivered ==
    /\ UNCHANGED listeners
    /\ heard' = [l \in DOMAIN heard |->
                    IF last'.notifyCalls > 0 /\ l \in Range(listeners)
                       THEN [heard[l] EXCEPT !.times = last'.notifyCalls,
                                             !.pos = IndexOf(listeners, l),
                                             !.via = "notify",
                                             !.state = GetState']
                       ELSE [heard[l] EXCEPT !.times = 0, !.pos = 0,
                                             !.via = "none"]]

\* Set.prototype.add: a member keeps its place, a newcomer goes last
Subscribed(ls, l) == IF l \in Range(ls) THEN ls ELSE Append(ls, l)

\* a disposer that deletes nothing
UnsubscribedNever(ls, l) == ls

\* Set.prototype.delete, the disposer returned by subscribe
Unsubscribed(ls, l) == SelectSeq(ls, LAMBDA x : x # l)

\* subscribe(listener): the listener joins the set and is invoked with
\* getState(); no other listener is invoked
Subscribe(l) ==
    /\ listeners' = Subscribed(listeners, l)
    /\ heard' = [x \in DOMAIN heard |->
                    IF x = l
                       THEN [times |-> 1, pos |-> 1, via |-> "subscribe",
                             state |-> GetState, subscribed |-> TRUE,
                             disposed |-> FALSE]
                       ELSE [heard[x] EXCEPT !.times = 0, !.pos = 0,
                                             !.via = "none"]]
    /\ last' = Step(NoResult, 0)
    /\ UNCHANGED <<activeDownloads, recentCompletions, notifications,
                   batchProgress, timers, calls, ledgerVars, engineVars>>

\* the disposer of listener l is called; the listener drops what it heard
Dispose(l) ==
    /\ heard[l].subscribed
    /\ listeners' = Unsubscribed(listeners, l)
    /\ heard' = [x \in DOMAIN heard |->
                    IF x = l
                       THEN [NotHeard EXCEPT !.subscribed = TRUE,
                                             !.disposed = TRUE]
                       ELSE [heard[x] EXCEPT !.times = 0, !.pos = 0,
                                             !.via = "none"]]
    /\ last' = Step(NoResult, 0)
    /\ UNCHANGED <<activeDownloads, recentCompletions, notifications,
                   batchProgress, timers, calls, ledgerVars, engineVars>>

CoordInit ==
    /\ activeDownloads = EmptyMap
    /\ recentCompletions = <<>>
    /\ notifications = <<>>
    /\ batchProgress = <<>>
    /\ listeners = <<>>
    /\ heard = [l \in Listeners |-> NotHeard]
    /\ timers = <<>>
    /\ last = Step(NoResult, 0)
    /\ calls = [c \in Calls |-> IdleCall]

(***************************************************************************)
(* setBatchProgress, notification timers                                   *)
(***************************************************************************)
BatchValues == {<<>>, <<[current |-> 0, total |-> 1]>>}

SetBatchProgress(bp) ==
    /\ batchProgress' = bp
    /\ last' = Step(NoResult, 1)
    /\ UNCHANGED <<activeDownloads, recentCompletions, notifications,
                   timers, calls, ledgerVars, engineVars>>
    /\ Delivered

\* the setTimeout callback of addNotification that removes nothing
ExpiredNever(list, msg) == list

\* the setTimeout callback of addNotification: indexOf, splice when found
Expired(list, msg) ==
    LET idx == IndexOf(list, msg)
    IN  IF idx # 0 THEN Splice(list, idx) ELSE list

\* clearNotification: indexOf, splice when found
Cleared(list, msg) ==
    LET idx == IndexOf(list, msg)
    IN  IF idx # 0 THEN Splice(list, idx) ELSE list

\* a clearNotification that notifies whether or not it found the message
ClearNotifyCallsAlways(list, msg) == 1

\* clearNotification: notify() is called when the message was found
ClearNotifyCalls(list, msg) == IF IndexOf(list, msg) # 0 THEN 1 ELSE 0

\* addNotification(msg, timeoutMs) called from outside: push, notify,
\* setTimeout.  At most MaxPending timers are pending.
AddNotificationCall(msg) ==
    /\ Len(timers) < MaxPending
    /\ notifications' = Append(notifications, msg)
    /\ timers' = Append(timers, msg)
    /\ last' = NotificationStep("addNotification", msg, FALSE, 1)
    /\ UNCHANGED <<activeDownloads, recentCompletions, batchProgress,
                   calls, ledgerVars, engineVars>>
    /\ Delivered

\* clearNotification(msg)
ClearNotification(msg) ==
    /\ notifications' = Cleared(notifications, msg)
    /\ last' = NotificationStep("clearNotification", msg,
                                IndexOf(notifications, msg) # 0,
                                ClearNotifyCalls(notifications, msg))
    /\ UNCHANGED <<activeDownloads, recentCompletions, batchProgress,
                   timers, calls, ledgerVars, engineVars>>
    /\ Delivered

\* the setTimeout callback of the i-th pending timer.  The timeouts of the
\* calls differ, so the callbacks run in any order.
TimeoutFires(i) ==
    /\ i \in 1..Len(timers)
    /\ LET msg == timers[i]
       IN  /\ timers' = Splice(timers, i)
           /\ notifications' = Expired(notifications, msg)
           /\ last' = [NotificationStep("timeout", msg,
                                        IndexOf(notifications, msg) # 0,
                                        IF IndexOf(notifications, msg) # 0
                                           THEN 1 ELSE 0)
                          EXCEPT !.call.timer = i]
    /\ UNCHANGED <<activeDownloads, recentCompletions, batchProgress,
                   calls, ledgerVars, engineVars>>
    /\ Delivered

\* the setTimeout callback of addNotification.  Every notification of the
\* coordinator is scheduled with the same delay (10000), so the callbacks run
\* in the order they were scheduled.
TimerFire ==
    /\ timers # <<>>
    /\ LET msg == Head(timers)
           idx == IndexOf(notifications, msg)
       IN  /\ timers' = Tail(timers)
           /\ IF idx # 0
                 THEN /\ notifications' = Splice(notifications, idx)
                      /\ last' = Step(NoResult, 1)
                 ELSE /\ UNCHANGED notifications
                      /\ last' = Step(NoResult, 0)
    /\ UNCHANGED <<activeDownloads, recentCompletions, batchProgress,
                   calls, ledgerVars, engineVars>>
    /\ Delivered

(***************************************************************************)
(* startDownload / startDVWDownload                                        *)
(***************************************************************************)
PendingProgress(m) == [matchId |-> m, status |-> "pending"]

\* `call` names the start call that inserted the entry; the program has no
\* such field, the model uses it to tell two transfers of one pair apart
NewActiveDownload(c, m, k) ==
    [matchId |-> m, contentType |-> k, progress |-> PendingProgress(m),
     call |-> c]

\* a rejection that announces itself to the listeners
RejectStartNotifying(c, m, k) ==
    /\ calls' = [calls EXCEPT ![c] = DoneCall]
    /\ last' = Step(Failure(AlreadyDownloading(k)), 1)
    /\ UNCHANGED <<activeDownloads, recentCompletions, notifications,
                   batchProgress, timers, ledgerVars, engineVars>>
    /\ Delivered

\* the guard of a start call found the pair downloading: the call returns at
\* once and touches nothing
RejectStart(c, m, k) ==
    /\ calls' = [calls EXCEPT ![c] = DoneCall]
    /\ last' = Step(Failure(AlreadyDownloading(k)), 0)
    /\ UNCHANGED <<activeDownloads, recentCompletions, notifications,
                   batchProgress, timers, ledgerVars, engineVars>>
    /\ Delivered

\* the accepted start call up to its first await: the entry is stored under
\* `key`, the listeners are notified and the Executor is invoked
AcceptStart(c, m, k, key) ==
    /\ activeDownloads' = MapSet(activeDownloads, key,
                                 NewActiveDownload(c, m, k))
    /\ last' = Step(NoResult, 1)
    /\ calls' = [calls EXCEPT ![c] =
                    [@ EXCEPT !.pc = "exec", !.matchId = m, !.kind = k,
                              !.exec = "init"]]
    /\ UNCHANGED <<recentCompletions, notifications, batchProgress,
                   timers, ledgerVars, engineVars>>
    /\ Delivered

\* start calls are numbered in the order they are made
MayStart(c) ==
    /\ calls[c].pc = "idle"
    /\ \A b \in Calls : b < c => calls[b].pc # "idle"

StartDownload(c, m) ==
    /\ MayStart(c)
    /\ IF IsDownloadingContent(m, "video")
          THEN RejectStart(c, m, "video")
          ELSE AcceptStart(c, m, "video", VideoKey(m))

StartDVWDownload(c, m) ==
    /\ MayStart(c)
    /\ IF IsDownloadingContent(m, "dvw")
          THEN RejectStart(c, m, "dvw")
          ELSE AcceptStart(c, m, "dvw", DVWKey(m))

(***************************************************************************)
(* The Executor as the coordinator sees it (downloadVideo / downloadDVW)   *)
(***************************************************************************)
\* the progress callback the coordinator hands to the Executor: it looks the
\* entry up under the call's key and replaces its progress
ProgressCallback(c, st) ==
    LET m == calls[c].matchId
        key == DownloadKey(m, calls[c].kind)
    IN  IF key \in DOMAIN activeDownloads
           THEN /\ activeDownloads' =
                       [activeDownloads EXCEPT ![key].progress =
                            [matchId |-> m, status |-> st]]
                /\ last' = Step(NoResult, 1)
           ELSE /\ UNCHANGED activeDownloads
                /\ last' = Step(NoResult, 0)

\* the states the Executor reports, in the order its code reaches them
NextExecStatus(st) ==
    CASE st = "init" -> {"pending"}
      [] st = "pending" -> {"downloading"}
      [] st = "downloading" -> {"completed", "error"}
      [] OTHER -> {}

\* onProgress?.(progress) inside the Executor
ExecProgress(c) ==
    /\ calls[c].pc = "exec"
    /\ \E st \in NextExecStatus(calls[c].exec) :
          /\ ProgressCallback(c, st)
          /\ calls' = [calls EXCEPT ![c].exec = st]
    /\ UNCHANGED <<recentCompletions, notifications, batchProgress,
                   timers, ledgerVars, engineVars>>
    /\ Delivered

\* the result the Executor resolves to: success when the target file was
\* already there ("pending") or the transfer completed, failure after an error
ExecOutcome(c) ==
    IF calls[c].exec = "error"
       THEN Failure(ExecError)
       ELSE Success(TargetPath(DefaultDir, calls[c].matchId, calls[c].kind))

\* addNotification(message, 10000): push, (notify,) schedule the removal
AddNotification(msg) ==
    /\ notifications' = Append(notifications, msg)
    /\ timers' = Append(timers, msg)

\* `await downloadVideo(...)` / `await downloadDVW(...)` resolves: the entry
\* under the call's key is deleted; a failure raises its notification and the
\* call returns; a success goes on to the ledger write (markAsDownloaded,
\* which suspends at its first read)
ExecReturn(c) ==
    /\ calls[c].pc = "exec"
    /\ calls[c].exec \in {"pending", "completed", "error"}
    /\ LET r == ExecOutcome(c)
           m == calls[c].matchId
           k == calls[c].kind
       IN  /\ activeDownloads' = MapDelete(activeDownloads, DownloadKey(m, k))
           /\ IF r.success /\ r.filepath # NoPath
                 THEN /\ calls' = [calls EXCEPT ![c] =
                              [@ EXCEPT !.pc = "ledgerLoad",
                                        !.execResult = r]]
                      /\ last' = Step(NoResult, 0)
                      /\ UNCHANGED <<notifications, timers>>
                 ELSE /\ AddNotification(FailedMsg(k, r.error))
                      /\ last' = Step(r, 2)
                      /\ calls' = [calls EXCEPT ![c] = DoneCall]
    /\ UNCHANGED <<recentCompletions, batchProgress, ledgerVars, engineVars>>
    /\ Delivered

\* the catch block of a start call: delete, notify, failure notification,
\* failure result carrying the exception's message
CatchBlock(c, e) ==
    LET m == calls[c].matchId
        k == calls[c].kind
    IN  /\ activeDownloads' = MapDelete(activeDownloads, DownloadKey(m, k))
        /\ AddNotification(FailedMsg(k, e))
        /\ last' = Step(Failure(e), 2)
        /\ calls' = [calls EXCEPT ![c] = DoneCall]

\* the Executor rejects instead of resolving (an exception raised before its
\* own try block)
ExecThrow(c) ==
    /\ calls[c].pc = "exec"
    /\ calls[c].exec = "init"
    /\ CatchBlock(c, ExecException)
    /\ UNCHANGED <<recentCompletions, batchProgress, ledgerVars, engineVars>>
    /\ Delivered

(***************************************************************************)
(* downloadTracker: records and the pure parts of its operations           *)
(***************************************************************************)
\* a DownloadRecord; contentType "none" is a record written before the field
\* existed (the field is absent from the JSON)
Record(m, fp, k) == [matchId |-> m, filepath |-> fp, contentType |-> k]

\* d.contentType ?? 'video'
RecordType(d) == IF d.contentType = "none" THEN "video" ELSE d.contentType

\* a push that drops nothing
MarkedDataUnfiltered(data, m, fp, k) == Append(data, Record(m, fp, k))

\* markAsDownloaded: drop the record of (matchId, contentType), push the new
MarkedData(data, m, fp, k) ==
    Append(SelectSeq(data, LAMBDA d : ~(d.matchId = m /\ RecordType(d) = k)),
           Record(m, fp, k))

\* a removal that ignores the content type
RemoveWholeMatch(data, m, k) == SelectSeq(data, LAMBDA d : d.matchId # m)

\* removeDownloadRecord: k = "none" stands for an omitted contentType
RemoveFiltered(data, m, k) ==
    IF k # "none"
       THEN SelectSeq(data, LAMBDA d : ~(d.matchId = m /\ RecordType(d) = k))
       ELSE SelectSeq(data, LAMBDA d : d.matchId # m)

\* what the backing file can hold: the serialized list, nothing (no file), a
\* file that cannot be read, text that is not JSON, and JSON without a
\* downloads array (for instance {})
FileConditions == {"ok", "missing", "unreadable", "invalid", "noList"}

\* loadDownloadsData: readFile or JSON.parse threw -> { version: 1,
\* downloads: [] }; otherwise whatever JSON.parse returned
LoadDownloadsData == IF ledgerFile = "ok" THEN ledger ELSE <<>>

\* the parsed value has no downloads array: the caller's first use of
\* data.downloads (filter, find, for-of) throws a TypeError
LoadThrows == ledgerFile = "noList"

(***************************************************************************)
(* The ledger write of a successful start call                             *)
(***************************************************************************)
\* markAsDownloaded after its read: the loaded list is filtered, the record
\* pushed, and the call suspends on the write
MarkLoad(c) ==
    /\ calls[c].pc = "ledgerLoad"
    /\ calls' = [calls EXCEPT ![c] =
                    [@ EXCEPT !.pc = "ledgerSave",
                              !.data = MarkedData(LoadDownloadsData,
                                                  calls[c].matchId,
                                                  calls[c].execResult.filepath,
                                                  calls[c].kind)]]
    /\ last' = Step(NoResult, 0)
    /\ UNCHANGED <<activeDownloads, recentCompletions, notifications,
                   batchProgress, timers, ledgerVars, engineVars>>
    /\ Delivered

\* completedAt: Date.now() of a completion, as a count: later than the
\* completedAt of every completion in the list
CompletedAt(list) ==
    IF list = <<>> THEN 1
    ELSE 1 + CHOOSE t \in {list[i].completedAt : i \in 1..Len(list)} :
                \A i \in 1..Len(list) : list[i].completedAt <= t

\* CompletedDownload
Completion(m, fp, k, at) ==
    [matchId |-> m, filepath |-> fp, contentType |-> k, completedAt |-> at]

\* an unshift that is followed by a shift
PushCompletionDropNewest(list, comp) ==
    LET l == <<comp>> \o list
    IN  IF Len(l) > MaxRecent THEN Tail(l) ELSE l

\* recentCompletions.unshift(completion); pop when longer than MaxRecent
PushCompletion(list, comp) ==
    LET l == <<comp>> \o list
    IN  IF Len(l) > MaxRecent THEN SubSeq(l, 1, Len(l) - 1) ELSE l

\* the write succeeded: completion entry, success notification, notify, and
\* the Executor's result is returned
MarkSave(c) ==
    /\ calls[c].pc = "ledgerSave"
    /\ ledger' = calls[c].data
    /\ recentCompletions' =
          PushCompletion(recentCompletions,
                         Completion(calls[c].matchId,
                                    calls[c].execResult.filepath,
                                    calls[c].kind,
                                    CompletedAt(recentCompletions)))
    /\ AddNotification(DownloadedMsg(calls[c].matchId, calls[c].kind))
    /\ last' = Step(calls[c].execResult, 2)
    /\ calls' = [calls EXCEPT ![c] = DoneCall]
    /\ ledgerFile' = "ok"
    /\ UNCHANGED <<activeDownloads, batchProgress, files, ops, lastOp,
                   engineVars>>
    /\ Delivered

\* the write failed: saveDownloadsData rejects, markAsDownloaded rejects, and
\* the start call lands in its catch block
MarkThrow(c) ==
    /\ calls[c].pc = "ledgerSave"
    /\ CatchBlock(c, LedgerException)
    /\ UNCHANGED <<recentCompletions, batchProgress, ledgerVars, engineVars>>
    /\ Delivered

(***************************************************************************)
(* Ledger operations: state                                                *)
(***************************************************************************)
Dirs == {DefaultDir, CustomDir}
Paths == {TargetPath(d, m, k) : d \in Dirs, m \in MatchIds, k \in ContentTypes}
Ops == 1..MaxOps
\* an optional contentType argument: "none" when omitted
KindFilters == ContentTypes \cup {"none"}

\* an operation that was not called yet, and one that has returned
IdleOp ==
    [pc |-> "idle", op |-> "none", matchId |-> 0, kind |-> "none",
     filepath |-> NoPath, data |-> <<>>, record |-> <<>>, idx |-> 0,
     valid |-> EmptyMap, invalid |-> <<>>, rmId |-> 0, rmKind |-> "none",
     quiet |-> FALSE]
DoneOp == [IdleOp EXCEPT !.pc = "done"]

\* the locals of an operation whose loadDownloadsData has just resolved; its
\* run is undisturbed until another operation writes the ledger
Loaded(op, m, k, fp) ==
    [IdleOp EXCEPT !.op = op, !.matchId = m, !.kind = k, !.filepath = fp,
                   !.rmId = m, !.rmKind = k, !.quiet = TRUE]

\* what an operation hands to its caller in the step it returns (NoOp after
\* every other step): its arguments, what it returned
\* (found: getDownloadRecord, <<>> for null; valid: getDownloadedMatches),
\* whether it rejected, how often it wrote the file, whether another
\* operation wrote the file while it ran, and the ledger before its last step
NoOp ==
    [op |-> "none", matchId |-> 0, kind |-> "none", filepath |-> NoPath,
     found |-> <<>>, valid |-> EmptyMap, threw |-> FALSE, writes |-> 0,
     quiet |-> FALSE, before |-> <<>>]

Returned(o, found, valid, threw, writes) ==
    [op |-> o.op, matchId |-> o.matchId, kind |-> o.kind,
     filepath |-> o.filepath, found |-> found, valid |-> valid,
     threw |-> threw, writes |-> writes, quiet |-> o.quiet,
     before |-> ledger]

(***************************************************************************)
(* Ledger operations.  An operation's first step is the one in which its   *)
(* loadDownloadsData resolves: the call up to that await touches neither   *)
(* the ledger nor a file.  Every later await is a step of its own.         *)
(***************************************************************************)
\* operations are called in the order of their numbers
MayBegin(p) ==
    /\ ops[p].pc = "idle"
    /\ \A q \in 1..(p - 1) : ops[q].pc # "idle"

InFlight(o) == o.pc \notin {"idle", "done"}

\* another operation replaced the ledger file: every operation in flight has
\* lost its undisturbed run
Disturbed(os) ==
    [q \in Ops |-> IF InFlight(os[q]) THEN [os[q] EXCEPT !.quiet = FALSE]
                                      ELSE os[q]]

\* operation p, with locals o, suspends at its next await
Suspend(p, o) ==
    /\ ops' = [ops EXCEPT ![p] = o]
    /\ lastOp' = NoOp

\* operation p, with locals o, returns (or rejects) without writing
ReturnOp(p, o, found, valid, threw) ==
    /\ ops' = [ops EXCEPT ![p] = DoneOp]
    /\ lastOp' = Returned(o, found, valid, threw, 0)

\* markAsDownloaded(matchId, filepath, filename, contentType): the loaded
\* list is filtered, the record pushed, and the call suspends on the write
MarkAsDownloaded(p, m, fp, k) ==
    /\ MayBegin(p)
    /\ IF LoadThrows
          THEN ReturnOp(p, Loaded("mark", m, k, fp), <<>>, EmptyMap, TRUE)
          ELSE Suspend(p, [Loaded("mark", m, k, fp) EXCEPT
                             !.pc = "save",
                             !.data = MarkedData(LoadDownloadsData, m, fp, k)])
    /\ UNCHANGED <<coordVars, engineVars, ledger, files, ledgerFile>>

\* removeDownloadRecord(matchId, contentType?)
RemoveDownloadRecord(p, m, k) ==
    /\ MayBegin(p)
    /\ IF LoadThrows
          THEN ReturnOp(p, Loaded("remove", m, k, NoPath), <<>>, EmptyMap, TRUE)
          ELSE Suspend(p, [Loaded("remove", m, k, NoPath) EXCEPT
                             !.pc = "save",
                             !.data = RemoveFiltered(LoadDownloadsData, m, k)])
    /\ UNCHANGED <<coordVars, engineVars, ledger, files, ledgerFile>>

\* saveDownloadsData resolves: the whole file is replaced by the caller's
\* list, and the caller returns
SaveDownloadsData(p) ==
    /\ ops[p].pc = "save"
    /\ ledger' = ops[p].data
    /\ ops' = [Disturbed(ops) EXCEPT ![p] = DoneOp]
    /\ ledgerFile' = "ok"
    /\ lastOp' = Returned(ops[p], <<>>, ops[p].valid, FALSE, 1)
    /\ UNCHANGED <<coordVars, engineVars, files>>

\* saveDownloadsData rejects (writeFile fails): nothing is written and the
\* rejection propagates out of the operation
SaveRejects(p) ==
    /\ ops[p].pc = "save"
    /\ ReturnOp(p, ops[p], <<>>, EmptyMap, TRUE)
    /\ UNCHANGED <<coordVars, engineVars, ledger, files, ledgerFile>>

\* data.downloads.find(...) of getDownloadRecord: the index of the first
\* record of the match (and of the kind, when one is given), 0 for none
FindRecord(data, m, k) ==
    LET Hits == {j \in DOMAIN data :
                   /\ data[j].matchId = m
                   /\ (k = "none" \/ RecordType(data[j]) = k)}
    IN  IF Hits = {} THEN 0 ELSE CHOOSE j \in Hits : \A h \in Hits : j <= h

\* { ...record, contentType: record.contentType ?? 'video' }
WithContentType(d) == [d EXCEPT !.contentType = RecordType(d)]

\* getDownloadRecord(matchId, contentType?): no record returns null, a
\* record is held while its file is stat'ed
GetDownloadRecord(p, m, k) ==
    LET data == LoadDownloadsData
        i == FindRecord(data, m, k)
        o == Loaded("get", m, k, NoPath)
    IN  /\ MayBegin(p)
        /\ CASE LoadThrows -> ReturnOp(p, o, <<>>, EmptyMap, TRUE)
             [] ~LoadThrows /\ i = 0 -> ReturnOp(p, o, <<>>, EmptyMap, FALSE)
             [] OTHER -> Suspend(p, [o EXCEPT !.pc = "getStat",
                                              !.record = <<data[i]>>])
        /\ UNCHANGED <<coordVars, engineVars, ledger, files, ledgerFile>>

\* getDownloadRecord after stat: size > 0 returns the record; stat threw
\* (no file) calls removeDownloadRecord; a size of 0 falls through to the
\* final return null
GetStat(p) ==
    LET record == ops[p].record[1]
        st == files[record.filepath]
    IN  /\ ops[p].pc = "getStat"
        /\ CASE st = "valid" ->
                   ReturnOp(p, ops[p], <<WithContentType(record)>>, EmptyMap,
                            FALSE)
             [] st = "missing" ->
                   Suspend(p, [ops[p] EXCEPT !.pc = "removeLoad",
                                             !.rmId = ops[p].matchId,
                                             !.rmKind = RecordType(record)])
             [] OTHER ->
                   ReturnOp(p, ops[p], <<>>, EmptyMap, FALSE)
        /\ UNCHANGED <<coordVars, engineVars, ledger, files, ledgerFile>>

\* the removeDownloadRecord called by getDownloadRecord, after its own read
RemoveLoaded(p) ==
    /\ ops[p].pc = "removeLoad"
    /\ IF LoadThrows
          THEN ReturnOp(p, ops[p], <<>>, EmptyMap, TRUE)
          ELSE Suspend(p, [ops[p] EXCEPT
                             !.pc = "save",
                             !.data = RemoveFiltered(LoadDownloadsData,
                                                     ops[p].rmId,
                                                     ops[p].rmKind)])
    /\ UNCHANGED <<coordVars, engineVars, ledger, files, ledgerFile>>

\* the loop of getDownloadedMatches: the next record after position i that
\* passes the content type filter, 0 when the loop is over
NextExamined(data, i, k) ==
    LET Rest == {j \in (i + 1)..Len(data) :
                   k = "none" \/ RecordType(data[j]) = k}
    IN  IF Rest = {} THEN 0 ELSE CHOOSE j \in Rest : \A h \in Rest : j <= h

\* a clean-up that ignores the content type of the invalid records
PrunedByMatch(data, invalid) ==
    SelectSeq(data,
              LAMBDA d : ~\E i \in DOMAIN invalid :
                            invalid[i].matchId = d.matchId)

\* the clean-up filter of getDownloadedMatches
PrunedData(data, invalid) ==
    SelectSeq(data,
              LAMBDA d : ~\E i \in DOMAIN invalid :
                            /\ invalid[i].matchId = d.matchId
                            /\ invalid[i].contentType = RecordType(d))

\* the end of the loop: rewrite when a record was invalid, else return
AllFinish(p, o) ==
    IF o.invalid = <<>>
       THEN ReturnOp(p, o, <<>>, o.valid, FALSE)
       ELSE Suspend(p, [o EXCEPT !.pc = "save",
                                 !.data = PrunedData(o.data, o.invalid)])

\* getDownloadedMatches(contentType?): the loop starts on the loaded list
GetDownloadedMatches(p, k) ==
    LET data == LoadDownloadsData
        j == NextExamined(data, 0, k)
        o == [Loaded("getAll", 0, k, NoPath) EXCEPT !.data = data]
    IN  /\ MayBegin(p)
        /\ CASE LoadThrows -> ReturnOp(p, o, <<>>, EmptyMap, TRUE)
             [] ~LoadThrows /\ j = 0 -> AllFinish(p, o)
             [] OTHER -> Suspend(p, [o EXCEPT !.pc = "allStat", !.idx = j])
        /\ UNCHANGED <<coordVars, engineVars, ledger, files, ledgerFile>>

\* one iteration of the loop, after the stat of the record's file
AllStat(p) ==
    LET record == ops[p].data[ops[p].idx]
        ok == files[record.filepath] = "valid"
        valid == IF ok THEN MapSet(ops[p].valid, record.matchId,
                                   WithContentType(record))
                       ELSE ops[p].valid
        invalid == IF ok THEN ops[p].invalid
                         ELSE Append(ops[p].invalid,
                                     [matchId |-> record.matchId,
                                      contentType |-> RecordType(record)])
        j == NextExamined(ops[p].data, ops[p].idx, ops[p].kind)
        o == [ops[p] EXCEPT !.valid = valid, !.invalid = invalid]
    IN  /\ ops[p].pc = "allStat"
        /\ IF j = 0
              THEN AllFinish(p, o)
              ELSE Suspend(p, [o EXCEPT !.idx = j])
        /\ UNCHANGED <<coordVars, engineVars, ledger, files, ledgerFile>>

(***************************************************************************)
(* The Executor: downloadVideo / downloadDVW, one step per await, with the *)
(* write stream and the throttle that the call creates                     *)
(***************************************************************************)
\* value.length of the chunks a body delivers, or the size of a DVW file
ChunkSizes == {1, 2}

\* the file the Executor writes (no customFolder)
ExecPath(k) == TargetPath(DefaultDir, BaseId, k)

\* the fields of DownloadProgress that change during a transfer
Progress(st, b) == [status |-> st, bytes |-> b]

\* a call that was not made yet.  status and bytes are the fields of the
\* call's mutable progress object; seen is the value its onProgress callback
\* received last; stream is the state of the fs.WriteStream; lastArgs and
\* timer are the throttle's lastArgs and timeoutId (lastArgs holds the byte
\* count at the time of the throttled call); requests counts the network
\* requests issued; trailed records that the throttle's timer delivered;
\* uncaught that an exception was thrown outside the call's promise
IdleXfer ==
    [pc |-> "idle", kind |-> "video", status |-> "none", bytes |-> 0,
     chunks |-> 0, stream |-> "none", lastArgs |-> <<>>, timer |-> FALSE,
     requests |-> 0, seen |-> Progress("none", 0), trailed |-> FALSE,
     result |-> NoResult, uncaught |-> FALSE]

\* a stat that never finds content
NonEmptyNever(st) == FALSE

\* stats.size > 0
NonEmpty(st) == st \in {"valid", "partial"}

\* the throttle's trailing call delivering what the progress object held
\* when the throttled function was called
TrailingSnapshot(current, snapshot) == snapshot

\* the throttle's trailing call, fn(...lastArgs): lastArgs refers to the
\* progress object itself, and { ...p } copies it when fn runs
TrailingBytes(current, snapshot) == current

\* the steps of the Executor change nothing but its call and its file
ExecFrame ==
    UNCHANGED <<coordVars, ledger, ops, lastOp, ledgerFile, thr, batch>>

\* downloadVideo(...) / downloadDVW(...) up to await getDownloadDir
DownloadCall(k) ==
    /\ xfer.pc = "idle"
    /\ xfer' = [xfer EXCEPT !.pc = "dir", !.kind = k]
    /\ UNCHANGED files
    /\ ExecFrame

\* the directory is there: progress is initialised, onProgress(pending), and
\* the call suspends on the stat of the pre-check
DirReady ==
    /\ xfer.pc = "dir"
    /\ xfer' = [xfer EXCEPT !.pc = "stat", !.status = "pending",
                            !.seen = Progress("pending", 0)]
    /\ UNCHANGED files
    /\ ExecFrame

\* the pre-check: a file with content returns success at once; otherwise
\* onProgress(downloading) and the network request is issued
PreCheck ==
    /\ xfer.pc = "stat"
    /\ IF NonEmpty(files[ExecPath(xfer.kind)])
          THEN xfer' = [xfer EXCEPT !.pc = "done",
                                    !.result = Success(ExecPath(xfer.kind))]
          ELSE xfer' = [xfer EXCEPT !.pc = "fetch", !.status = "downloading",
                                    !.seen = Progress("downloading", 0),
                                    !.requests = @ + 1]
    /\ UNCHANGED files
    /\ ExecFrame

\* the catch block up to its await: status error, onProgress(error), and the
\* unlink of the target is issued
Caught(x, e) ==
    [x EXCEPT !.pc = "unlink", !.status = "error",
              !.seen = Progress("error", x.bytes), !.result = Failure(e)]

\* downloadVideo: fetch rejects, or resolves with a status that is not ok,
\* or with no body (the write stream is created before the body is looked
\* at), or with a body
VideoFetched ==
    /\ xfer.pc = "fetch"
    /\ xfer.kind = "video"
    /\ \/ xfer' = Caught(xfer, "fetch failed")
       \/ xfer' = Caught(xfer, ExecError)
       \/ xfer' = Caught([xfer EXCEPT !.stream = "opening"],
                         "Response body is not readable")
       \/ xfer' = [xfer EXCEPT !.pc = "read", !.stream = "opening"]
    /\ UNCHANGED files
    /\ ExecFrame

\* fs.createWriteStream opens the file in the background: flag 'w' creates or
\* truncates it, and what was written to the stream so far follows
StreamOpens ==
    /\ xfer.stream = "opening"
    /\ xfer' = [xfer EXCEPT !.stream = "open"]
    /\ files' = [files EXCEPT ![ExecPath(xfer.kind)] =
                    IF xfer.bytes > 0 THEN "partial" ELSE "empty"]
    /\ ExecFrame

\* reader.read() resolves with a chunk: it is written to the stream, added
\* to progress.bytesDownloaded, and the throttled callback is called.  The
\* throttle calls through when enough time has passed since its last call
\* (any timing is possible); otherwise it keeps the arguments and makes sure
\* its timer is set.
ReadChunk(n, through) ==
    /\ xfer.pc = "read"
    /\ xfer.chunks < MaxChunks
    /\ LET b == xfer.bytes + n
       IN  xfer' = IF through
                      THEN [xfer EXCEPT !.bytes = b, !.chunks = @ + 1,
                                        !.seen = Progress(xfer.status, b)]
                      ELSE [xfer EXCEPT !.bytes = b, !.chunks = @ + 1,
                                        !.lastArgs = <<b>>, !.timer = TRUE]
    /\ files' = IF xfer.stream = "open"
                   THEN [files EXCEPT ![ExecPath(xfer.kind)] = "partial"]
                   ELSE files
    /\ ExecFrame

\* reader.read() resolves with done: fileStream.end(callback)
ReadDone ==
    /\ xfer.pc = "read"
    /\ xfer' = [xfer EXCEPT !.pc = "close"]
    /\ UNCHANGED files
    /\ ExecFrame

\* reader.read() rejects
ReadError ==
    /\ xfer.pc = "read"
    /\ xfer' = Caught(xfer, "read error")
    /\ UNCHANGED files
    /\ ExecFrame

\* the stream has flushed and closed: status completed, onProgress(completed)
\* and the success result
CloseDone ==
    /\ xfer.pc = "close"
    /\ xfer.stream = "open"
    /\ xfer' = [xfer EXCEPT !.pc = "done", !.stream = "closed",
                            !.status = "completed",
                            !.seen = Progress("completed", xfer.bytes),
                            !.result = Success(ExecPath(xfer.kind))]
    /\ files' = [files EXCEPT ![ExecPath(xfer.kind)] =
                    IF xfer.bytes > 0 THEN "valid" ELSE "empty"]
    /\ ExecFrame

\* the stream fails (the open, for instance in a directory that could not be
\* created, or a write) and is destroyed.  It emits 'error'; the call has
\* put no listener for 'error' on the stream, so the event is thrown as an
\* uncaught exception.  A call that is still reading goes on reading.
StreamFails ==
    /\ xfer.stream \in {"opening", "open"}
    /\ xfer.pc \in {"read", "close"}
    /\ xfer' = [xfer EXCEPT !.stream = "failed", !.uncaught = TRUE]
    /\ UNCHANGED files
    /\ ExecFrame

\* the callback of end receives the error of the stream that failed
CloseError ==
    /\ xfer.pc = "close"
    /\ xfer.stream = "failed"
    /\ xfer' = Caught(xfer, "write error")
    /\ UNCHANGED files
    /\ ExecFrame

\* downloadDVW: api.downloadDVWContent rejects, or resolves with null or
\* with the content, whose size becomes the progress; writeFile is issued
DVWFetched ==
    /\ xfer.pc = "fetch"
    /\ xfer.kind = "dvw"
    /\ \/ xfer' = Caught(xfer, "fetch failed")
       \/ xfer' = Caught(xfer, "DVW file not available or invalid format")
       \/ \E n \in ChunkSizes : xfer' = [xfer EXCEPT !.pc = "write",
                                                      !.bytes = n]
    /\ UNCHANGED files
    /\ ExecFrame

\* fs.promises.writeFile resolves
WriteFileDone ==
    /\ xfer.pc = "write"
    /\ xfer' = [xfer EXCEPT !.pc = "done", !.status = "completed",
                            !.seen = Progress("completed", xfer.bytes),
                            !.result = Success(ExecPath(xfer.kind))]
    /\ files' = [files EXCEPT ![ExecPath(xfer.kind)] = "valid"]
    /\ ExecFrame

\* fs.promises.writeFile rejects, with nothing, an empty file or a part of
\* the content on disk
WriteFileError ==
    /\ xfer.pc = "write"
    /\ xfer' = Caught(xfer, "write error")
    /\ \E st \in {files[ExecPath(xfer.kind)], "empty", "partial"} :
          files' = [files EXCEPT ![ExecPath(xfer.kind)] = st]
    /\ ExecFrame

\* the unlink of the catch block takes effect on disk; a stream that is open
\* keeps writing to the file that has lost its name
Unlink ==
    /\ xfer.pc = "unlink"
    /\ xfer' = [xfer EXCEPT !.pc = "return",
                            !.stream = IF @ = "open" THEN "detached" ELSE @]
    /\ files' = [files EXCEPT ![ExecPath(xfer.kind)] = "missing"]
    /\ ExecFrame

\* the catch block after its await: the failure result is returned
ReturnFailure ==
    /\ xfer.pc = "return"
    /\ xfer' = [xfer EXCEPT !.pc = "done"]
    /\ UNCHANGED files
    /\ ExecFrame

\* the setTimeout callback of the throttle
ThrottleTimer ==
    /\ xfer.timer
    /\ xfer' = IF xfer.lastArgs # <<>>
                  THEN [xfer EXCEPT
                           !.timer = FALSE, !.lastArgs = <<>>,
                           !.trailed = TRUE,
                           !.seen = Progress(xfer.status,
                                             TrailingBytes(xfer.bytes,
                                                           xfer.lastArgs[1]))]
                  ELSE [xfer EXCEPT !.timer = FALSE]
    /\ UNCHANGED files
    /\ ExecFrame

(***************************************************************************)
(* throttle(fn, wait): the closure and its timer against a clock           *)
(***************************************************************************)
\* timeoutId = null
NoTimer == -1

\* the closure after throttle(fn, Wait) returned.  Date.now() is far from 0,
\* so the clock starts where a first call passes the test against lastCall = 0.
\* calls counts the calls of the throttled function, the n-th call has the
\* argument n; timeoutId holds the time the pending timer is due; invoked
\* lists the invocations of fn with their argument and their time
IdleThrottle ==
    [now |-> Wait, lastCall |-> 0, lastArgs |-> <<>>, timeoutId |-> NoTimer,
     calls |-> 0, invoked |-> <<>>]

\* fn(...args) at the current time
Invoke(t, arg) ==
    [t EXCEPT !.lastCall = t.now,
              !.invoked = Append(@, [arg |-> arg, at |-> t.now])]

ThrottleFrame ==
    UNCHANGED <<coordVars, ledgerVars, xfer, batch>>

\* a millisecond passes; a timer that is due does not stop the clock, the
\* event loop runs its callback when it gets to it
Tick ==
    /\ thr.now < MaxTime
    /\ thr' = [thr EXCEPT !.now = @ + 1]
    /\ ThrottleFrame

\* throttled(arg)
Throttled ==
    /\ thr.calls < MaxThrottleCalls
    /\ LET arg == thr.calls + 1
           t == [thr EXCEPT !.calls = arg]
           timeSinceLastCall == thr.now - thr.lastCall
       IN  thr' = IF timeSinceLastCall >= Wait
                     THEN Invoke(t, arg)
                     ELSE [t EXCEPT
                             !.lastArgs = <<arg>>,
                             !.timeoutId =
                                 IF @ = NoTimer
                                    THEN thr.now + (Wait - timeSinceLastCall)
                                    ELSE @]
    /\ ThrottleFrame

\* the setTimeout callback runs, at its due time or later
TrailingCall ==
    /\ thr.timeoutId # NoTimer
    /\ thr.now >= thr.timeoutId
    /\ thr' = IF thr.lastArgs # <<>>
                 THEN [Invoke(thr, thr.lastArgs[1]) EXCEPT
                          !.lastArgs = <<>>, !.timeoutId = NoTimer]
                 ELSE [thr EXCEPT !.timeoutId = NoTimer]
    /\ ThrottleFrame

\* throttledProgress?.(progress) in the read loop of the Executor of call c:
\* the throttle calls through when enough time has passed since its last
\* call (any timing is possible); otherwise it keeps the arguments, the
\* progress object of call c, and makes sure its timer is set
ThrottledProgress(c, through) ==
    /\ calls[c].pc = "exec"
    /\ calls[c].exec = "downloading"
    /\ IF through
          THEN /\ ProgressCallback(c, "downloading")
               /\ UNCHANGED thr
          ELSE /\ thr' = [thr EXCEPT
                            !.lastArgs = <<c>>,
                            !.timeoutId = IF @ = NoTimer THEN thr.now + Wait
                                                         ELSE @]
               /\ UNCHANGED activeDownloads
               /\ last' = Step(NoResult, 0)
    /\ UNCHANGED <<recentCompletions, notifications, batchProgress, timers,
                   calls, ledgerVars, xfer, batch>>
    /\ Delivered

\* the setTimeout callback of that throttle runs: fn(...lastArgs) is the
\* progress callback of the call that made the closure, with the progress
\* object as it is by now.  The timer is not cancelled when the Executor
\* returns; the model follows it until the start call has returned.
TrailingProgress ==
    /\ thr.timeoutId # NoTimer
    /\ thr.lastArgs # <<>>
    /\ calls[thr.lastArgs[1]].pc \in {"exec", "ledgerLoad", "ledgerSave"}
    /\ ProgressCallback(thr.lastArgs[1], calls[thr.lastArgs[1]].exec)
    /\ thr' = [thr EXCEPT !.lastArgs = <<>>, !.timeoutId = NoTimer]
    /\ UNCHANGED <<recentCompletions, notifications, batchProgress, timers,
                   calls, ledgerVars, xfer, batch>>
    /\ Delivered

(***************************************************************************)
(* bulkDownload: the loop over the items and their selected content types, *)
(* one step per stage of a pair                                            *)
(***************************************************************************)
\* BulkContentType
BulkTypes == {"video", "dvw", "scoresheet"}

\* the selectedTypes an item of the model may carry
TypeLists ==
    {<<>>, <<"video">>, <<"video", "dvw">>, <<"dvw", "scoresheet">>}

\* the match of the n-th item of a batch
ItemMatch(n) == IF n % 2 = 1 THEN BaseId ELSE BaseId + KeyOffset

\* the items arguments of the model
ItemLists ==
    UNION {{its \in [1..n -> [match : MatchIds, selectedTypes : TypeLists]] :
              \A x \in 1..n : its[x].match = ItemMatch(x)} : n \in 1..MaxItems}

\* BulkDownloadResult; via is not a field of the code: it names the return
\* statement that made the result
BulkResult(m, k, ok, skip, why, via) ==
    [matchId |-> m, contentType |-> k, success |-> ok, skipped |-> skip,
     skipReason |-> why, via |-> via]

\* a call that was not made yet.  i and j are the positions of the two for
\* loops; begun lists the pairs handed to downloadSingleContent; requests
\* counts the network requests issued; run numbers the calls made with the
\* same arguments, and first holds the results of the first of them
IdleBatch ==
    [pc |-> "idle", items |-> <<>>, dir |-> DefaultDir, i |-> 1, j |-> 1,
     totalDownloads |-> 0, completedItems |-> 0, results |-> <<>>,
     begun |-> <<>>, requests |-> 0, run |-> 1, first |-> <<>>,
     summary |-> [total |-> 0, downloaded |-> 0, skipped |-> 0, failed |-> 0]]

\* totalDownloads of the counting loops
RECURSIVE CountDownloads(_)
CountDownloads(its) ==
    IF its = <<>> THEN 0
    ELSE Len(Head(its).selectedTypes) + CountDownloads(Tail(its))

\* the position of the loops at or after (i, j) that has a pair; past the
\* last item when there is none
RECURSIVE Seek(_, _, _)
Seek(its, i, j) ==
    IF i > Len(its) THEN <<i, 1>>
    ELSE IF j <= Len(its[i].selectedTypes) THEN <<i, j>>
    ELSE Seek(its, i + 1, 1)

\* a loop that gives up at the first failure
NextPairStopOnFailure(b, r) ==
    IF ~r.success /\ ~r.skipped THEN <<Len(b.items) + 1, 1>>
    ELSE Seek(b.items, b.i, b.j + 1)

\* the position of the loops after the pair at (i, j) has its result
NextPair(b, r) == Seek(b.items, b.i, b.j + 1)

\* a filter that counts only the successful skips
IsSkippedSuccess(r) == r.success /\ r.skipped

\* r => r.skipped
IsSkipped(r) == r.skipped

\* the summary of the results
SummaryOf(total, rs) ==
    [total |-> total,
     downloaded |-> Len(SelectSeq(rs, LAMBDA r : r.success /\ ~r.skipped)),
     skipped |-> Len(SelectSeq(rs, IsSkipped)),
     failed |-> Len(SelectSeq(rs, LAMBDA r : ~r.success /\ ~r.skipped))]

BulkMsg(summary) ==
    [text |-> "Bulk download complete", kind |-> "none", matchId |-> 0,
     error |-> "", counts |-> summary]

\* the pair of the loops' position
PairMatch(b) == b.items[b.i].match
PairType(b) == b.items[b.i].selectedTypes[b.j]
PairPath(b) == TargetPath(b.dir, PairMatch(b), PairType(b))

BatchFrame ==
    /\ UNCHANGED <<activeDownloads, recentCompletions, calls, ops, lastOp,
                   xfer, thr>>
    /\ Delivered

\* bulkDownload(items, ..., options) up to await createDownloadDirectories:
\* the pairs are counted.  options.customFolder decides the directory
\* (organizeByType is off)
BulkDownload(its, dir) ==
    /\ batch.pc = "idle"
    /\ batch' = [batch EXCEPT !.pc = "dirs", !.items = its, !.dir = dir,
                              !.totalDownloads = CountDownloads(its)]
    /\ last' = Step(NoResult, 0)
    /\ UNCHANGED <<batchProgress, notifications, timers, ledger, files,
                   ledgerFile>>
    /\ BatchFrame

\* bulkDownload is called again with the items and options of the call that
\* has returned
BulkAgain ==
    /\ batch.pc = "done"
    /\ batch.run = 1
    /\ batch' = [IdleBatch EXCEPT
                    !.pc = "dirs", !.items = batch.items, !.dir = batch.dir,
                    !.totalDownloads = CountDownloads(batch.items),
                    !.run = 2, !.first = batch.results]
    /\ last' = Step(NoResult, 0)
    /\ UNCHANGED <<batchProgress, notifications, timers, ledger, files,
                   ledgerFile>>
    /\ BatchFrame

\* mkdir rejects: bulkDownload rejects
DirsRejected ==
    /\ batch.pc = "dirs"
    /\ batch' = [batch EXCEPT !.pc = "rejected"]
    /\ last' = Step(NoResult, 0)
    /\ UNCHANGED <<batchProgress, notifications, timers, ledger, files,
                   ledgerFile>>
    /\ BatchFrame

\* the directories are there: setBatchProgress({current: 0, total}) and
\* onProgress?.(progress), which returns or throws; then the loops start
DirsCreated(throws) ==
    /\ batch.pc = "dirs"
    /\ LET at == Seek(batch.items, 1, 1)
       IN  batch' = [batch EXCEPT
                        !.pc = IF throws THEN "rejected" ELSE "loop",
                        !.i = at[1], !.j = at[2]]
    /\ batchProgress' = <<[current |-> 0, total |-> batch.totalDownloads]>>
    /\ last' = Step(NoResult, 1)
    /\ UNCHANGED <<notifications, timers, ledger, files, ledgerFile>>
    /\ BatchFrame

\* `await downloadSingleContent(...)` resolves with r: results.push,
\* completedItems++, setBatchProgress, onProgress?.(progress), which returns
\* or throws, and the loops move on
Resolved(b, r, throws) ==
    LET at == NextPair(b, r)
    IN  [b EXCEPT !.pc = IF throws THEN "rejected" ELSE "loop",
                  !.i = at[1], !.j = at[2],
                  !.results = Append(@, r), !.completedItems = @ + 1]

\* a batch that raises a notification for every pair that failed
ProgressedNotifying(b) ==
    LET r == b.results[Len(b.results)]
    IN  /\ batchProgress' = <<[current |-> b.completedItems,
                               total |-> b.totalDownloads]>>
        /\ last' = Step(NoResult, 1)
        /\ IF ~r.success /\ ~r.skipped
              THEN AddNotification(FailedMsg(r.contentType, ""))
              ELSE UNCHANGED <<notifications, timers>>

\* the setBatchProgress of a pair that has its result; nothing is added to the
\* notifications
Progressed(b) ==
    /\ batchProgress' = <<[current |-> b.completedItems,
                           total |-> b.totalDownloads]>>
    /\ last' = Step(NoResult, 1)
    /\ UNCHANGED <<notifications, timers>>

\* a loop that hands the next pair over while one is in progress
MayBeginPairEarly(b) ==
    /\ b.pc \in {"loop", "stat", "fetch", "mark"}
    /\ b.i <= Len(b.items)

\* the loops are at a pair, and no `await downloadSingleContent` is pending
MayBeginPair(b) ==
    /\ b.pc = "loop"
    /\ b.i <= Len(b.items)

\* downloadSingleContent for the pair of the loops' position: content that
\* is not available, and every scoresheet, is skipped at once; otherwise the
\* target is stat'ed
PairStart(available, throws) ==
    /\ MayBeginPair(batch)
    /\ LET m == PairMatch(batch)
           k == PairType(batch)
           b == [batch EXCEPT !.begun = Append(@, <<batch.i, batch.j>>)]
       IN  IF k = "scoresheet"
              THEN /\ batch' = Resolved(b, BulkResult(m, k, FALSE, TRUE,
                                           "Scoresheets coming soon",
                                           "unavailable"), throws)
                   /\ Progressed(batch')
           ELSE IF ~available
              THEN /\ batch' = Resolved(b, BulkResult(m, k, FALSE, TRUE,
                                           IF k = "video"
                                              THEN "Video not available"
                                              ELSE "DVW not available",
                                           "unavailable"), throws)
                   /\ Progressed(batch')
           ELSE /\ ~throws
                /\ batch' = [b EXCEPT !.pc = "stat"]
                /\ last' = Step(NoResult, 0)
                /\ UNCHANGED <<batchProgress, notifications, timers>>
    /\ UNCHANGED <<ledger, files, ledgerFile>>
    /\ BatchFrame

\* the stat of the target resolves: a file with content is skipped as
\* already downloaded; otherwise the network request is issued
PairStat(throws) ==
    /\ batch.pc = "stat"
    /\ IF NonEmpty(files[PairPath(batch)])
          THEN /\ batch' = Resolved(batch,
                              BulkResult(PairMatch(batch), PairType(batch),
                                         TRUE, TRUE, "Already downloaded",
                                         "exists"), throws)
               /\ Progressed(batch')
          ELSE /\ ~throws
               /\ batch' = [batch EXCEPT !.pc = "fetch", !.requests = @ + 1]
               /\ last' = Step(NoResult, 0)
               /\ UNCHANGED <<batchProgress, notifications, timers>>
    /\ UNCHANGED <<ledger, files, ledgerFile>>
    /\ BatchFrame

\* the transfer fails (status, body, read, write): the catch block unlinks
\* the target and the pair has a failure result
PairTransferFails(throws) ==
    /\ batch.pc = "fetch"
    /\ batch' = Resolved(batch,
                   BulkResult(PairMatch(batch), PairType(batch), FALSE, FALSE,
                              "", "transfer failed"), throws)
    /\ Progressed(batch')
    /\ files' = [files EXCEPT ![PairPath(batch)] = "missing"]
    /\ UNCHANGED <<ledger, ledgerFile>>
    /\ BatchFrame

\* the transfer completes: the file is written and closed, with content or,
\* for a video whose body had no chunk, without; markAsDownloaded /
\* markDVWAsDownloaded is awaited
PairTransferred(content) ==
    /\ batch.pc = "fetch"
    /\ content \/ PairType(batch) = "video"
    /\ batch' = [batch EXCEPT !.pc = "mark"]
    /\ files' = [files EXCEPT ![PairPath(batch)] =
                    IF content THEN "valid" ELSE "empty"]
    /\ last' = Step(NoResult, 0)
    /\ UNCHANGED <<batchProgress, notifications, timers, ledger, ledgerFile>>
    /\ BatchFrame

\* the ledger write resolves: the pair has a success result
PairMarked(throws) ==
    /\ batch.pc = "mark"
    /\ ~LoadThrows
    /\ ledger' = MarkedData(LoadDownloadsData, PairMatch(batch),
                            PairPath(batch), PairType(batch))
    /\ ledgerFile' = "ok"
    /\ batch' = Resolved(batch,
                   BulkResult(PairMatch(batch), PairType(batch), TRUE, FALSE,
                              "", "downloaded"), throws)
    /\ Progressed(batch')
    /\ UNCHANGED files
    /\ BatchFrame

\* the ledger write throws (no list in the backing file, or the save
\* rejects): the catch block unlinks the target that was just written and the
\* pair has a failure result
PairMarkThrows(throws) ==
    /\ batch.pc = "mark"
    /\ batch' = Resolved(batch,
                   BulkResult(PairMatch(batch), PairType(batch), FALSE, FALSE,
                              "", "ledger failed"), throws)
    /\ Progressed(batch')
    /\ files' = [files EXCEPT ![PairPath(batch)] = "missing"]
    /\ UNCHANGED <<ledger, ledgerFile>>
    /\ BatchFrame

\* the loops are over: setBatchProgress(null), the summary, its notification,
\* and the return
BulkReturn ==
    /\ batch.pc = "loop"
    /\ batch.i > Len(batch.items)
    /\ batch' = [batch EXCEPT
                    !.pc = "done",
                    !.summary = SummaryOf(batch.totalDownloads,
                                          batch.results)]
    /\ batchProgress' = <<>>
    /\ AddNotification(BulkMsg(batch'.summary))
    /\ last' = Step(NoResult, 2)
    /\ UNCHANGED <<ledger, files, ledgerFile>>
    /\ BatchFrame

(***************************************************************************)
(* Specification of the coordinator                                        *)
(***************************************************************************)
Init ==
    /\ CoordInit
    /\ ledger = <<>>
    /\ files = [p \in Paths |-> "missing"]
    /\ ops = [p \in Ops |-> IdleOp]
    /\ lastOp = NoOp
    /\ ledgerFile = "ok"
    /\ xfer = IdleXfer
    /\ thr = IdleThrottle
    /\ batch = IdleBatch

\* the steps of the start calls CS and of the timers they schedule
TransferNext(CS) ==
    \/ TimerFire
    \/ \E c \in CS, m \in MatchIds : StartDownload(c, m)
    \/ \E c \in CS, m \in MatchIds : StartDVWDownload(c, m)
    \/ \E c \in CS : ExecProgress(c)
    \/ \E c \in CS : ExecReturn(c)
    \/ \E c \in CS : ExecThrow(c)
    \/ \E c \in CS : MarkLoad(c)
    \/ \E c \in CS : MarkSave(c)
    \/ \E c \in CS : MarkThrow(c)

Next ==
    \/ \E bp \in BatchValues : SetBatchProgress(bp)
    \/ TransferNext(1..MaxCalls)

Spec == Init /\ [][Next]_vars

\* the Executor terminates: a pending Executor call takes its next step
ExecutorFairness ==
    \A c \in 1..MaxCalls :
        WF_vars(ExecProgress(c) \/ ExecReturn(c) \/ ExecThrow(c))

\* the start calls alone, with an Executor that terminates.  setBatchProgress
\* is left out: it writes batchProgress only, which no step of a start call
\* reads.
FairNext == TransferNext(1..MaxCalls)

FairSpec == Init /\ [][FairNext]_vars /\ ExecutorFairness

\* the coordinator with one start call and listeners that subscribe and
\* dispose at any time between the steps of the call
ListenerNext ==
    \/ \E l \in Listeners : Subscribe(l)
    \/ \E l \in Listeners : Dispose(l)
    \/ \E bp \in BatchValues : SetBatchProgress(bp)
    \/ TransferNext({1})

ListenerSpec == Init /\ [][ListenerNext]_vars

\* the notification interface of the coordinator: addNotification and
\* clearNotification called with any message at any time, timers that run
\* in any order, listeners that subscribe and dispose
NotifyNext ==
    \/ \E msg \in Messages : AddNotificationCall(msg)
    \/ \E msg \in Messages : ClearNotification(msg)
    \/ \E i \in 1..MaxPending : TimeoutFires(i)
    \/ \E l \in Listeners : Subscribe(l)
    \/ \E l \in Listeners : Dispose(l)

NotifySpec == Init /\ [][NotifyNext]_vars

\* the completions of n earlier downloads, most recent first
EarlierCompletions(n) ==
    [i \in 1..n |->
        LET m == IF i % 2 = 1 THEN BaseId ELSE BaseId + KeyOffset
            k == IF i % 3 = 0 THEN "dvw" ELSE "video"
        IN  Completion(m, TargetPath(DefaultDir, m, k), k, n + 1 - i)]

\* the coordinator after earlier downloads have completed and their
\* notifications have expired: the list of recent completions is empty,
\* one short of full, or full
CompletionInit ==
    /\ activeDownloads = EmptyMap
    /\ recentCompletions \in
          {EarlierCompletions(n) : n \in {0, MaxRecent - 1, MaxRecent}}
    /\ notifications = <<>>
    /\ batchProgress = <<>>
    /\ listeners = <<>>
    /\ heard = [l \in Listeners |-> NotHeard]
    /\ timers = <<>>
    /\ last = Step(NoResult, 0)
    /\ calls = [c \in Calls |-> IdleCall]
    /\ ledger = <<>>
    /\ files = [p \in Paths |-> "missing"]
    /\ ops = [p \in Ops |-> IdleOp]
    /\ lastOp = NoOp
    /\ ledgerFile = "ok"
    /\ xfer = IdleXfer
    /\ thr = IdleThrottle
    /\ batch = IdleBatch

CompletionSpec == CompletionInit /\ [][FairNext]_vars

\* the coordinator with one more start call, enough for two pairs whose keys
\* collide and a second call for one of them
CollisionNext ==
    \/ \E bp \in BatchValues : SetBatchProgress(bp)
    \/ TransferNext(1..MaxCollisionCalls)

CollisionSpec == Init /\ [][CollisionNext]_vars

(***************************************************************************)
(* Specification of the ledger                                             *)
(***************************************************************************)
\* ledgers left by earlier sessions: none, and one written partly by the
\* version that had no contentType field
LedgerSeeds ==
    {<<>>,
     <<Record(BaseId, TargetPath(DefaultDir, BaseId, "video"), "none"),
       Record(BaseId, TargetPath(DefaultDir, BaseId, "dvw"), "dvw")>>}

\* what is on disk: a file of a recorded download may have been deleted or
\* truncated since; the other paths hold what a download leaves there
FileStates == {"missing", "empty", "valid"}
DiskStates(data) ==
    {f \in [Paths -> FileStates] :
        \A path \in Paths \ {data[i].filepath : i \in DOMAIN data} :
           f[path] = "valid"}

\* the backing file holds a list, or it is damaged and there is no list
LedgerInit ==
    /\ CoordInit
    /\ ledgerFile \in FileConditions
    /\ ledger \in IF ledgerFile = "ok" THEN LedgerSeeds ELSE {<<>>}
    /\ files \in DiskStates(ledger)
    /\ xfer = IdleXfer
    /\ thr = IdleThrottle
    /\ batch = IdleBatch
    /\ ops = [p \in Ops |-> IdleOp]
    /\ lastOp = NoOp

LedgerNext ==
    \/ \E p \in Ops, m \in MatchIds, k \in ContentTypes, d \in Dirs :
          MarkAsDownloaded(p, m, TargetPath(d, m, k), k)
    \/ \E p \in Ops, m \in MatchIds, k \in KindFilters :
          RemoveDownloadRecord(p, m, k)
    \/ \E p \in Ops, m \in MatchIds, k \in KindFilters :
          GetDownloadRecord(p, m, k)
    \/ \E p \in Ops, k \in KindFilters : GetDownloadedMatches(p, k)
    \/ \E p \in Ops : GetStat(p)
    \/ \E p \in Ops : RemoveLoaded(p)
    \/ \E p \in Ops : AllStat(p)
    \/ \E p \in Ops : SaveDownloadsData(p)
    \/ \E p \in Ops : SaveRejects(p)

LedgerSpec == LedgerInit /\ [][LedgerNext]_vars

(***************************************************************************)
(* Specification of the Executor                                           *)
(***************************************************************************)
\* before the call the target is absent, empty, or complete from an earlier
\* download
ExecInit ==
    /\ CoordInit
    /\ ledger = <<>>
    /\ ledgerFile = "ok"
    /\ ops = [p \in Ops |-> IdleOp]
    /\ lastOp = NoOp
    /\ xfer = IdleXfer
    /\ thr = IdleThrottle
    /\ batch = IdleBatch
    /\ files \in {f \in [Paths -> FileStates] :
                    \A path \in Paths \ {ExecPath(k) : k \in ContentTypes} :
                       f[path] = "missing"}

ExecNext ==
    \/ \E k \in ContentTypes : DownloadCall(k)
    \/ DirReady
    \/ PreCheck
    \/ VideoFetched
    \/ StreamOpens
    \/ \E n \in ChunkSizes, through \in BOOLEAN : ReadChunk(n, through)
    \/ ReadDone
    \/ ReadError
    \/ CloseDone
    \/ StreamFails
    \/ CloseError
    \/ DVWFetched
    \/ WriteFileDone
    \/ WriteFileError
    \/ Unlink
    \/ ReturnFailure
    \/ ThrottleTimer

ExecSpec == ExecInit /\ [][ExecNext]_vars

(***************************************************************************)
(* Specification of the throttle                                           *)
(***************************************************************************)
ThrottleInit ==
    /\ CoordInit
    /\ ledger = <<>>
    /\ ledgerFile = "ok"
    /\ ops = [p \in Ops |-> IdleOp]
    /\ lastOp = NoOp
    /\ files = [path \in Paths |-> "missing"]
    /\ xfer = IdleXfer
    /\ thr = IdleThrottle
    /\ batch = IdleBatch

ThrottleNext ==
    \/ Tick
    \/ Throttled
    \/ TrailingCall

ThrottleSpec == ThrottleInit /\ [][ThrottleNext]_vars

(***************************************************************************)
(* Specification of the batch                                              *)
(***************************************************************************)
\* the ledger holds records of downloads to the default directory or nothing,
\* or its backing file has no list; of the first match, each video file is
\* there or not, and the DVW files are there or not
BatchInit ==
    /\ CoordInit
    /\ ledgerFile \in {"ok", "noList"}
    /\ ledger \in IF ledgerFile = "ok" THEN LedgerSeeds ELSE {<<>>}
    /\ ops = [p \in Ops |-> IdleOp]
    /\ lastOp = NoOp
    /\ files \in {f \in [Paths -> {"missing", "valid"}] :
                    /\ \A d \in Dirs, k \in ContentTypes :
                          f[TargetPath(d, BaseId + KeyOffset, k)] = "missing"
                    /\ f[TargetPath(DefaultDir, BaseId, "dvw")]
                          = f[TargetPath(CustomDir, BaseId, "dvw")]}
    /\ xfer = IdleXfer
    /\ thr = IdleThrottle
    /\ batch = IdleBatch

BatchNext ==
    \/ \E its \in ItemLists, dir \in Dirs : BulkDownload(its, dir)
    \/ DirsRejected
    \/ \E throws \in BOOLEAN : DirsCreated(throws)
    \/ \E available, throws \in BOOLEAN : PairStart(available, throws)
    \/ \E throws \in BOOLEAN : PairStat(throws)
    \/ \E throws \in BOOLEAN : PairTransferFails(throws)
    \/ \E content \in BOOLEAN : PairTransferred(content)
    \/ \E throws \in BOOLEAN : PairMarked(throws)
    \/ \E throws \in BOOLEAN : PairMarkThrows(throws)
    \/ BulkReturn

BatchSpec == BatchInit /\ [][BatchNext]_vars

\* a batch of one item, and the same batch once more
AgainNext ==
    \/ \E its \in {l \in ItemLists : Len(l) = 1}, dir \in Dirs :
          BulkDownload(its, dir)
    \/ BulkAgain
    \/ DirsRejected
    \/ \E throws \in BOOLEAN : DirsCreated(throws)
    \/ \E available, throws \in BOOLEAN : PairStart(available, throws)
    \/ \E throws \in BOOLEAN : PairStat(throws)
    \/ \E throws \in BOOLEAN : PairTransferFails(throws)
    \/ \E content \in BOOLEAN : PairTransferred(content)
    \/ \E throws \in BOOLEAN : PairMarked(throws)
    \/ \E throws \in BOOLEAN : PairMarkThrows(throws)
    \/ BulkReturn

AgainSpec == BatchInit /\ [][AgainNext]_vars

\* a batch of one item next to one start call of the coordinator: the user
\* starts a download while a bulk download is running, or the other way round
OverlapNext ==
    \/ \E its \in {l \in ItemLists : Len(l) = 1}, dir \in Dirs :
          BulkDownload(its, dir)
    \/ DirsRejected
    \/ \E throws \in BOOLEAN : DirsCreated(throws)
    \/ \E available, throws \in BOOLEAN : PairStart(available, throws)
    \/ \E throws \in BOOLEAN : PairStat(throws)
    \/ \E throws \in BOOLEAN : PairTransferFails(throws)
    \/ \E content \in BOOLEAN : PairTransferred(content)
    \/ \E throws \in BOOLEAN : PairMarked(throws)
    \/ \E throws \in BOOLEAN : PairMarkThrows(throws)
    \/ BulkReturn
    \/ TransferNext({1})

OverlapSpec == Init /\ [][OverlapNext]_vars

\* start calls for the two kinds of one match, with the throttle of the
\* first call's Executor
TrailingNext ==
    \/ TimerFire
    \/ \E c \in 1..MaxCalls : StartDownload(c, BaseId)
    \/ \E c \in 1..MaxCalls : StartDVWDownload(c, BaseId)
    \/ \E c \in 1..MaxCalls : ExecProgress(c)
    \/ \E c \in 1..MaxCalls : ExecReturn(c)
    \/ \E c \in 1..MaxCalls : ExecThrow(c)
    \/ \E c \in 1..MaxCalls : MarkLoad(c)
    \/ \E c \in 1..MaxCalls : MarkSave(c)
    \/ \E c \in 1..MaxCalls : MarkThrow(c)
    \/ \E through \in BOOLEAN : ThrottledProgress(1, through)
    \/ TrailingProgress

TrailingSpec == Init /\ [][TrailingNext]_vars

(***************************************************************************)
(* generateVideoFilename / sanitizeFilename: the target of a video, and    *)
(* the coordinator's video downloads of two different items into one       *)
(* download directory.  A string is a sequence of characters.              *)
(***************************************************************************)
\* what new Date(match.matchDate) is made from: a day and a time of day
MatchDates ==
    {[day |-> <<"2", "1">>, hour |-> 12], [day |-> <<"2", "1">>, hour |-> 18],
     [day |-> <<"2", "2">>, hour |-> 12]}

\* team abbreviations
Abbreviations == {<<"O", "U">>, <<"A", "/", "M">>, <<"A", "_", "M">>}

\* `${year}-${month}-${day}`: the time of day is not part of it
DateStr(date) == <<"2", "0", "2", "5", "-", "1", "1", "-">> \o date.day

\* `${dateStr} ${awayAbbr} vs ${homeAbbr}.mp4`
GenerateVideoFilename(match) ==
    DateStr(match.matchDate) \o <<" ">> \o match.awayAbbr
       \o <<" ", "v", "s", " ">> \o match.homeAbbr \o <<".", "m", "p", "4">>

\* the characters of [<>:"/\\|?*]
InvalidChars == {"<", ">", ":", "\"", "/", "\\", "|", "?", "*"}

\* filename.replace(/[<>:"/\\|?*]/g, '_')
SanitizeFilename(filename) ==
    [i \in DOMAIN filename |->
        IF filename[i] \in InvalidChars THEN "_" ELSE filename[i]]

\* path.join(downloadDir, sanitizeFilename(generateVideoFilename(match)))
VideoFilepath(dir, match) ==
    <<dir, SanitizeFilename(GenerateVideoFilename(match))>>

\* the match events of the items: distinct ids, any date and abbreviations
MatchEvents(m) ==
    [id : {m}, matchDate : MatchDates, awayAbbr : Abbreviations,
     homeAbbr : Abbreviations]

\* the two items, no download of either started; fetched holds the ids of
\* the items whose own content was written to disk
TargetInit ==
    /\ CoordInit
    /\ ledger = <<>>
    /\ ledgerFile = "ok"
    /\ ops = [p \in Ops |-> IdleOp]
    /\ lastOp = NoOp
    /\ thr = IdleThrottle
    /\ batch = IdleBatch
    /\ \E first \in MatchEvents(BaseId), second \in MatchEvents(BaseId + 1) :
          /\ xfer = [pc |-> "idle", items |-> <<first, second>>, at |-> 0,
                     started |-> {}, fetched |-> {}, result |-> NoResult]
          /\ files = [path \in {VideoFilepath(DefaultDir, first),
                                VideoFilepath(DefaultDir, second)}
                         |-> "missing"]

TargetFrame == UNCHANGED <<coordVars, ops, lastOp, ledgerFile, thr, batch>>

\* startDownload(item i) calling downloadVideo, up to the stat of the
\* pre-check
VideoStart(i) ==
    /\ xfer.pc = "idle"
    /\ i \notin xfer.started
    /\ xfer' = [xfer EXCEPT !.pc = "stat", !.at = i,
                            !.started = @ \cup {i}, !.result = NoResult]
    /\ UNCHANGED <<files, ledger>>
    /\ TargetFrame

\* the pre-check: a file with content at the target returns success at once
VideoPreCheck ==
    /\ xfer.pc = "stat"
    /\ LET filepath == VideoFilepath(DefaultDir, xfer.items[xfer.at])
       IN  IF NonEmpty(files[filepath])
              THEN xfer' = [xfer EXCEPT !.pc = "mark",
                                        !.result = Success(filepath)]
              ELSE xfer' = [xfer EXCEPT !.pc = "fetch"]
    /\ UNCHANGED <<files, ledger>>
    /\ TargetFrame

\* the fetch and the write of the item's content, or their failure
VideoFetch(ok) ==
    /\ xfer.pc = "fetch"
    /\ LET filepath == VideoFilepath(DefaultDir, xfer.items[xfer.at])
       IN  IF ok
              THEN /\ files' = [files EXCEPT ![filepath] = "valid"]
                   /\ xfer' = [xfer EXCEPT
                                 !.pc = "mark",
                                 !.fetched = @ \cup {xfer.items[xfer.at].id},
                                 !.result = Success(filepath)]
              ELSE /\ xfer' = [xfer EXCEPT !.pc = "idle",
                                           !.result = Failure(ExecError)]
                   /\ UNCHANGED files
    /\ UNCHANGED ledger
    /\ TargetFrame

\* result.success: markAsDownloaded(match.id, result.filepath, ..., 'video')
VideoMark ==
    /\ xfer.pc = "mark"
    /\ ledger' = MarkedData(ledger, xfer.items[xfer.at].id,
                            xfer.result.filepath, "video")
    /\ xfer' = [xfer EXCEPT !.pc = "idle"]
    /\ UNCHANGED files
    /\ TargetFrame

TargetNext ==
    \/ \E i \in {1, 2} : VideoStart(i)
    \/ VideoPreCheck
    \/ \E ok \in BOOLEAN : VideoFetch(ok)
    \/ VideoMark

TargetSpec == TargetInit /\ [][TargetNext]_vars

(***************************************************************************)
(* The progress object of downloadVideo / downloadDVW and the snapshots    *)
(* its onProgress callback receives                                        *)
(***************************************************************************)
\* values of the Content-Length header: none, or a string of digits
ContentLengths ==
    {<<>>, <<"0">>, <<"1">>, <<"2">>, <<"3">>, <<"4">>, <<"1", "0">>}

Digits == <<"0", "1", "2", "3", "4", "5", "6", "7", "8", "9">>

\* parseInt(contentLength, 10) of a string of digits
RECURSIVE ParseInt(_)
ParseInt(s) ==
    IF Len(s) = 0
       THEN 0
       ELSE 10 * ParseInt(SubSeq(s, 1, Len(s) - 1))
               + (CHOOSE d \in 0 .. 9 : Digits[d + 1] = s[Len(s)])

\* contentLength ? parseInt(contentLength, 10) : 0
TotalBytes(contentLength) ==
    IF contentLength = <<>> THEN 0 ELSE ParseInt(contentLength)

\* Math.round((bytesDownloaded / totalBytes) * 100)
Percent(bytesDownloaded, totalBytes) ==
    (200 * bytesDownloaded + totalBytes) \div (2 * totalBytes)

\* sizes of the content api.downloadDVWContent returns; 0 is no content
ContentSizes == 0 .. 2

\* the fields of DownloadProgress the transfer changes
Snapshot(st, b, t, p) ==
    [status |-> st, bytesDownloaded |-> b, totalBytes |-> t, percent |-> p]

\* progress is the call's progress object, seen what onProgress received
\* last and via how ("call": called by the download function, "throttle":
\* by the throttled function at once, "timer": by the throttle's timer), timer
\* that the throttle's trailing call is scheduled
SnapshotInit ==
    /\ CoordInit
    /\ ledger = <<>>
    /\ ledgerFile = "ok"
    /\ ops = [p \in Ops |-> IdleOp]
    /\ lastOp = NoOp
    /\ thr = IdleThrottle
    /\ batch = IdleBatch
    /\ files = [path \in Paths |-> "missing"]
    /\ xfer = [pc |-> "idle", kind |-> "video",
               progress |-> Snapshot("none", 0, 0, 0),
               seen |-> Snapshot("none", 0, 0, 0),
               chunks |-> 0, timer |-> FALSE, via |-> "none"]

SnapshotFrame ==
    UNCHANGED <<coordVars, ledger, ops, lastOp, ledgerFile, thr, batch, files>>

\* the progress object is initialised and onProgress(progress) is called
SnapshotCall(k) ==
    /\ xfer.pc = "idle"
    /\ xfer' = [xfer EXCEPT !.pc = "stat", !.kind = k,
                            !.progress = Snapshot("pending", 0, 0, 0),
                            !.seen = Snapshot("pending", 0, 0, 0),
                            !.via = "call"]
    /\ SnapshotFrame

\* the pre-check returns, or status = 'downloading' and onProgress(progress)
SnapshotPreCheck(exists) ==
    /\ xfer.pc = "stat"
    /\ IF exists
          THEN xfer' = [xfer EXCEPT !.pc = "done"]
          ELSE xfer' = [xfer EXCEPT
                          !.pc = "fetch",
                          !.progress.status = "downloading",
                          !.seen = [xfer.progress EXCEPT
                                      !.status = "downloading"],
                          !.via = "call"]
    /\ SnapshotFrame

\* the catch block: status = 'error' and onProgress(progress)
SnapshotError ==
    xfer' = [xfer EXCEPT !.pc = "done", !.progress.status = "error",
                         !.seen = [xfer.progress EXCEPT !.status = "error"],
                         !.via = "call"]

\* downloadVideo: the response; totalBytes from its Content-Length
SnapshotResponse(contentLength, ok) ==
    /\ xfer.pc = "fetch"
    /\ xfer.kind = "video"
    /\ IF ok
          THEN xfer' = [xfer EXCEPT
                          !.pc = "read",
                          !.progress.totalBytes = TotalBytes(contentLength)]
          ELSE SnapshotError
    /\ SnapshotFrame

\* downloadVideo: a chunk of n bytes; throttledProgress(progress) either
\* calls onProgress({ ...p }) at once or schedules the trailing call
SnapshotChunk(n, through) ==
    /\ xfer.pc = "read"
    /\ xfer.chunks < MaxChunks
    /\ LET bytes == xfer.progress.bytesDownloaded + n
           after == [xfer.progress EXCEPT
                       !.bytesDownloaded = bytes,
                       !.percent = IF xfer.progress.totalBytes > 0
                                      THEN Percent(bytes,
                                                   xfer.progress.totalBytes)
                                      ELSE @]
       IN  xfer' = [xfer EXCEPT
                      !.progress = after,
                      !.chunks = @ + 1,
                      !.seen = IF through THEN after ELSE @,
                      !.via = IF through THEN "throttle" ELSE @,
                      !.timer = IF through THEN @ ELSE TRUE]
    /\ SnapshotFrame

\* the throttle's timer: onProgress({ ...p }) of the progress object as it
\* is when the timer runs
SnapshotTrailing ==
    /\ xfer.timer
    /\ xfer' = [xfer EXCEPT !.seen = xfer.progress, !.via = "timer",
                         !.timer = FALSE]
    /\ SnapshotFrame

\* downloadVideo: the body ended and the stream closed: status =
\* 'completed', percent = 100, onProgress(progress); or a read or the close
\* failed
SnapshotEnd(ok) ==
    /\ xfer.pc = "read"
    /\ IF ok
          THEN xfer' = [xfer EXCEPT
                          !.pc = "done",
                          !.progress.status = "completed",
                          !.progress.percent = 100,
                          !.seen = [xfer.progress EXCEPT
                                      !.status = "completed",
                                      !.percent = 100],
                          !.via = "call"]
          ELSE SnapshotError
    /\ SnapshotFrame

\* downloadDVW: the content arrived: totalBytes = bytesDownloaded =
\* contentSize, percent = 100; no content throws
SnapshotContent(contentSize) ==
    /\ xfer.pc = "fetch"
    /\ xfer.kind = "dvw"
    /\ IF contentSize > 0
          THEN xfer' = [xfer EXCEPT
                          !.pc = "write",
                          !.progress.totalBytes = contentSize,
                          !.progress.bytesDownloaded = contentSize,
                          !.progress.percent = 100]
          ELSE SnapshotError
    /\ SnapshotFrame

\* downloadDVW: the file was written: status = 'completed' and
\* onProgress(progress); or writeFile failed
SnapshotWritten(ok) ==
    /\ xfer.pc = "write"
    /\ IF ok
          THEN xfer' = [xfer EXCEPT
                          !.pc = "done",
                          !.progress.status = "completed",
                          !.seen = [xfer.progress EXCEPT
                                      !.status = "completed"],
                          !.via = "call"]
          ELSE SnapshotError
    /\ SnapshotFrame

SnapshotNext ==
    \/ \E k \in ContentTypes : SnapshotCall(k)
    \/ \E exists \in BOOLEAN : SnapshotPreCheck(exists)
    \/ \E contentLength \in ContentLengths, ok \in BOOLEAN :
          SnapshotResponse(contentLength, ok)
    \/ \E n \in ChunkSizes, through \in BOOLEAN : SnapshotChunk(n, through)
    \/ SnapshotTrailing
    \/ \E ok \in BOOLEAN : SnapshotEnd(ok)
    \/ \E contentSize \in ContentSizes : SnapshotContent(contentSize)
    \/ \E ok \in BOOLEAN : SnapshotWritten(ok)

SnapshotSpec == SnapshotInit /\ [][SnapshotNext]_vars

(***************************************************************************)
(* Properties of the coordinator                                           *)
(***************************************************************************)
Pairs == MatchIds \X ContentTypes

\* the call's Executor has been invoked and has not returned
Transferring(c, m, k) ==
    calls[c].pc = "exec" /\ calls[c].matchId = m /\ calls[c].kind = k

\* the step is the return of call c to its caller
Resolves(c) == calls[c].pc # "done" /\ calls'[c].pc = "done"

\* C1: at most one active transfer per (item id, kind): a start call for a
\* pair whose earlier transfer has not completed is rejected, so no two
\* accepted transfers of one pair run at the same time, and no two entries of
\* the active map carry the same pair.
C1_AtMostOneActive ==
    /\ \A c1, c2 \in Calls :
          (/\ c1 # c2
           /\ calls[c1].pc = "exec"
           /\ calls[c2].pc = "exec")
          => ~(/\ calls[c1].matchId = calls[c2].matchId
               /\ calls[c1].kind = calls[c2].kind)
    /\ \A k1, k2 \in DOMAIN activeDownloads :
          k1 # k2 =>
             ~(/\ activeDownloads[k1].matchId = activeDownloads[k2].matchId
               /\ activeDownloads[k1].contentType
                     = activeDownloads[k2].contentType)

\* C2: the key of the active map tells every two (item id, kind) pairs apart:
\* isDownloadingContent(id, kind) is true exactly while a transfer of that
\* pair is in flight, whatever other pairs start, progress or complete.
C2_KeyDisambiguates ==
    \A pr \in Pairs :
        IsDownloadingContent(pr[1], pr[2])
            <=> \E c \in Calls : Transferring(c, pr[1], pr[2])

\* C3 as stated: when an accepted start call returns, the active map holds no
\* entry for the call's pair.
C3_NoEntryForPairOnReturn ==
    [][\A c \in Calls :
          (Resolves(c) /\ calls[c].pc # "idle")
          => ~HasEntryFor(activeDownloads', calls[c].matchId, calls[c].kind)
      ]_vars

\* C3 amended: the entry a start call inserted is out of the active map as
\* soon as its Executor has returned or thrown (an entry of the same pair in
\* the map belongs to another call whose Executor is still running), and as
\* the Executor terminates every entry is eventually removed.
C3_OwnEntryRemoved ==
    /\ [](\A key \in DOMAIN activeDownloads :
             calls[activeDownloads[key].call].pc = "exec")
    /\ \A c \in 1..MaxCalls :
          (calls[c].pc = "exec")
             ~> (\A key \in DOMAIN activeDownloads :
                    activeDownloads[key].call # c)

\* a start call has just returned a success while the map holds an entry of
\* the same pair, inserted by a later call
C3_Witness ==
    /\ last.result.success
    /\ IsDownloadingContent(last.result.filepath[2], last.result.filepath[3])

\* C4: a start call rejected because its pair is active returns the
\* 'Already downloading' failure at once and changes nothing: active map (with
\* the running transfer's progress), completions, notifications, timers, batch
\* progress and ledger stay as they were, no Executor is invoked, no other
\* call moves and notify() is not called.
C4_RejectionChangesNothing ==
    [][\A c \in Calls :
          (calls[c].pc = "idle" /\ calls'[c].pc = "done")
          => /\ \E k \in ContentTypes :
                   last'.result = Failure(AlreadyDownloading(k))
             /\ last'.notifyCalls = 0
             /\ \A b \in Calls \ {c} : calls'[b] = calls[b]
             /\ UNCHANGED <<activeDownloads, recentCompletions,
                            notifications, batchProgress, timers, ledger>>
      ]_vars

\* a start call was just rejected while the transfer it collided with is in
\* its "downloading" phase and a batch is in progress
C4_Witness ==
    /\ \E k \in ContentTypes : last.result = Failure(AlreadyDownloading(k))
    /\ batchProgress # <<>>
    /\ \E key \in DOMAIN activeDownloads :
          activeDownloads[key].progress.status = "downloading"

\* C5: a start call returns the Executor's result unchanged, whatever the
\* ledger write that follows a success does.
C5_ReturnsExecutorResult ==
    [][\A c \in Calls :
          /\ (Resolves(c) /\ calls[c].pc = "ledgerSave")
                => last'.result = calls[c].execResult
          /\ (Resolves(c) /\ calls[c].pc = "exec" /\ calls[c].exec # "init")
                => last'.result = ExecOutcome(c)
      ]_vars

\* the records of a pair in a record list
RecordsOf(data, m, k) ==
    {i \in 1..Len(data) : data[i].matchId = m /\ RecordType(data[i]) = k}

\* C6: a transfer that failed leaves ledger and completions alone and raises
\* one failure notification; a transfer that succeeded writes one record for
\* its pair, pushes one completion and raises one success notification.
C6_EffectsOfFinishedTransfer ==
    [][\A c \in Calls :
          /\ (Resolves(c) /\ calls[c].pc = "exec" /\ calls[c].exec = "error")
                => /\ UNCHANGED <<ledger, recentCompletions>>
                   /\ notifications' =
                         Append(notifications,
                                FailedMsg(calls[c].kind, ExecError))
          /\ (Resolves(c) /\ calls[c].pc = "ledgerSave")
                => /\ Cardinality(RecordsOf(ledger', calls[c].matchId,
                                            calls[c].kind)) = 1
                   /\ ledger'[Len(ledger')] =
                         Record(calls[c].matchId,
                                calls[c].execResult.filepath, calls[c].kind)
                   /\ Len(recentCompletions') = Len(recentCompletions) + 1
                   /\ notifications' =
                         Append(notifications,
                                DownloadedMsg(calls[c].matchId,
                                              calls[c].kind))
      ]_vars

(***************************************************************************)
(* Properties of the ledger                                                *)
(***************************************************************************)
\* an operation of the given kind returns normally in this step (lastOp' is
\* what it returns), and no other operation wrote the ledger since it read it
ReturnsQuietly(op) ==
    /\ lastOp'.op = op
    /\ lastOp'.quiet
    /\ ~lastOp'.threw

\* C7: under every interleaving of the four operations the persisted ledger
\* holds at most one record per (matchId, contentType), and a markAsDownloaded
\* that returns leaves exactly one record of its pair, carrying its filepath.
C7_LedgerIdempotence ==
    /\ [](\A m \in MatchIds, k \in ContentTypes :
             Cardinality(RecordsOf(ledger, m, k)) <= 1)
    /\ [][(lastOp'.op = "mark" /\ ~lastOp'.threw)
             => /\ Cardinality(RecordsOf(ledger', lastOp'.matchId,
                                         lastOp'.kind)) = 1
                /\ \A i \in RecordsOf(ledger', lastOp'.matchId, lastOp'.kind) :
                      ledger'[i] = Record(lastOp'.matchId, lastOp'.filepath,
                                          lastOp'.kind)
         ]_vars

\* a second markAsDownloaded of a pair has just replaced the record that
\* carried another filepath
C7_Witness ==
    /\ lastOp.op = "mark"
    /\ ~lastOp.threw
    /\ \E i \in RecordsOf(lastOp.before, lastOp.matchId, lastOp.kind) :
          lastOp.before[i].filepath # lastOp.filepath
    /\ \E i \in RecordsOf(ledger, lastOp.matchId, lastOp.kind) :
          ledger[i].filepath = lastOp.filepath

\* a list without the record at position i
Without(data, i) == {data[j] : j \in (DOMAIN data) \ {i}}

\* C8: undisturbed and with a successful write, getDownloadRecord for a pair
\* whose record points at a missing file returns null and removes that record
\* and no other; getDownloadedMatches returns no record whose file is missing
\* and no record that is not in the ledger.
C8_SelfHealing ==
    [][/\ ReturnsQuietly("get")
             => LET i == FindRecord(ledger, lastOp'.matchId, lastOp'.kind)
                IN  (i # 0 /\ files[ledger[i].filepath] = "missing")
                       => /\ lastOp'.found = <<>>
                          /\ Range(ledger') = Without(ledger, i)
                          /\ \A j \in DOMAIN ledger :
                                files[ledger[j].filepath] = "valid"
                                   => ledger[j] \in Range(ledger')
       /\ ReturnsQuietly("getAll")
             => \A m \in DOMAIN lastOp'.valid :
                   /\ files[lastOp'.valid[m].filepath] # "missing"
                   /\ \E j \in DOMAIN ledger' :
                         WithContentType(ledger'[j]) = lastOp'.valid[m]
      ]_vars

\* getDownloadRecord has just pruned the record of a missing file and left
\* a record of a valid file in the ledger
C8_Witness ==
    /\ lastOp.op = "get"
    /\ lastOp.quiet
    /\ ~lastOp.threw
    /\ lastOp.found = <<>>
    /\ lastOp.writes = 1
    /\ Len(ledger) + 1 = Len(lastOp.before)
    /\ \E j \in DOMAIN ledger : files[ledger[j].filepath] = "valid"

\* C9: undisturbed, getDownloadRecord for a pair whose record points at a
\* zero-length file returns null and removes that record.
C9_EmptyFilePruned ==
    [][ReturnsQuietly("get")
          => LET i == FindRecord(ledger, lastOp'.matchId, lastOp'.kind)
             IN  (i # 0 /\ files[ledger[i].filepath] = "empty")
                    => /\ lastOp'.found = <<>>
                       /\ Range(ledger') = Without(ledger, i)
      ]_vars

\* the records getDownloadedMatches(k) examines, and the valid ones of them
Examined(data, k) ==
    {i \in DOMAIN data : k = "none" \/ RecordType(data[i]) = k}
ValidOf(data, k) ==
    {i \in Examined(data, k) : files[data[i].filepath] = "valid"}

\* C10: undisturbed and with a successful write, getDownloadedMatches(k)
\* returns exactly the matches that have an examined record with a non-empty
\* file, each mapped to such a record; the examined records with a missing or
\* empty file are exactly what it removes, in one write, and it does not
\* write when there is none.
C10_OnlyValidRecords ==
    [][ReturnsQuietly("getAll")
          => LET k == lastOp'.kind
                 Ok == ValidOf(ledger, k)
                 Bad == Examined(ledger, k) \ Ok
                 res == lastOp'.valid
             IN  /\ DOMAIN res = {ledger[i].matchId : i \in Ok}
                 /\ \A m \in DOMAIN res :
                       \E i \in Ok : /\ ledger[i].matchId = m
                                     /\ res[m] = WithContentType(ledger[i])
                 /\ ledger' = SelectSeq(ledger,
                                 LAMBDA d : ~\E i \in Bad : ledger[i] = d)
                 /\ lastOp'.writes = IF Bad = {} THEN 0 ELSE 1
      ]_vars

\* getDownloadedMatches has just returned a valid record and pruned an
\* invalid one
C10_Witness ==
    /\ lastOp.op = "getAll"
    /\ lastOp.quiet
    /\ ~lastOp.threw
    /\ lastOp.writes = 1
    /\ DOMAIN lastOp.valid # {}
    /\ Len(ledger) < Len(lastOp.before)

\* C11: whatever the backing file holds instead of a record list (no file,
\* an unreadable file, text that is not JSON, JSON without the list), a read
\* operation (getDownloadRecord, and isDownloaded which wraps it;
\* getDownloadedMatches) returns what it returns on an empty ledger, null or
\* the empty map, without writing and without throwing.
C11_DamagedFileReadsAsEmpty ==
    [][(lastOp'.op \in {"get", "getAll"} /\ ledgerFile # "ok")
          => /\ ~lastOp'.threw
             /\ lastOp'.found = <<>>
             /\ lastOp'.valid = EmptyMap
             /\ lastOp'.writes = 0
      ]_vars

\* the records of data that markAsDownloaded(m, .., k) or
\* removeDownloadRecord(m, k) is not about: those of another match and, when
\* a kind is given, that of the other kind; a record without contentType
\* counts as a video record
Outside(data, m, k) ==
    {d \in Range(data) :
        ~(d.matchId = m /\ (k = "none" \/ RecordType(d) = k))}

\* C32: a markAsDownloaded or removeDownloadRecord that returns leaves the
\* persisted records of every other match, and of the other kind of its own
\* match, as they were before its write; after removeDownloadRecord no record
\* of its match (of its pair, when a kind is given) is left.
C32_LedgerFrame ==
    [][(lastOp'.op \in {"mark", "remove"} /\ ~lastOp'.threw)
          => /\ Outside(ledger', lastOp'.matchId, lastOp'.kind)
                   = Outside(ledger, lastOp'.matchId, lastOp'.kind)
             /\ lastOp'.op = "remove"
                   => Range(ledger')
                         = Outside(ledger', lastOp'.matchId, lastOp'.kind)
      ]_vars

\* C33: getDownloadedMatches() without a filter returns every record with a
\* non-empty file: when the video record and the DVW record of a match are
\* both valid, the returned map holds both.
C33_BothKindsReturned ==
    [][(ReturnsQuietly("getAll") /\ lastOp'.kind = "none")
          => \A i \in ValidOf(ledger, "none") :
                \E key \in DOMAIN lastOp'.valid :
                   lastOp'.valid[key] = WithContentType(ledger[i])
      ]_vars

\* C23: the list of recent completions never holds more than MaxRecent
\* entries and is ordered most recent first; a completion is pushed at the
\* front, the entries before it keep their order, and when the list was full
\* the entry that goes is the oldest; under every interleaving of the
\* transfers that complete.
C23_RecentCompletionsBounded ==
    /\ [](/\ Len(recentCompletions) <= MaxRecent
          /\ \A i, j \in 1..Len(recentCompletions) :
                i < j => recentCompletions[i].completedAt
                            > recentCompletions[j].completedAt)
    /\ [][LET old == recentCompletions
                kept == IF Len(old) = MaxRecent THEN MaxRecent - 1
                                                ELSE Len(old)
                completes(c) == /\ Resolves(c)
                                /\ calls[c].pc = "ledgerSave"
                                /\ last'.result.success
            IN  /\ \A c \in Calls :
                      completes(c)
                         => /\ Len(recentCompletions') = kept + 1
                            /\ recentCompletions'[1].matchId
                                  = calls[c].matchId
                            /\ recentCompletions'[1].contentType
                                  = calls[c].kind
                            /\ SubSeq(recentCompletions', 2, kept + 1)
                                  = SubSeq(old, 1, kept)
                            /\ \A i \in 1..Len(old) :
                                  recentCompletions'[1].completedAt
                                     > old[i].completedAt
                /\ (\A c \in Calls : ~completes(c))
                      => UNCHANGED recentCompletions
         ]_vars

\* two transfers that were in flight together have completed on a full
\* list: two of the oldest entries are gone
C23_Witness ==
    /\ Len(recentCompletions) = MaxRecent
    /\ recentCompletions[1].completedAt = MaxRecent + 2
    /\ recentCompletions[MaxRecent].completedAt = 3

\* C24: subscribe(listener) invokes the listener exactly once, with the
\* current state, before it returns, and invokes no other listener; a listener
\* of the set is invoked by every notify() of a step, with the state the
\* coordinator has after the step; and a listener whose disposer has been
\* called is not invoked by any later step, until it subscribes again.
C24_SubscribeContract ==
    /\ \A l \in Listeners :
          /\ heard[l].via = "subscribe"
                => /\ heard[l].times = 1
                   /\ heard[l].state = GetState
                   /\ l \in Range(listeners)
                   /\ \A x \in Listeners \ {l} : heard[x].times = 0
          /\ (l \in Range(listeners) /\ heard[l].via # "subscribe")
                => /\ heard[l].times = last.notifyCalls
                   /\ last.notifyCalls > 0 => heard[l].state = GetState
          /\ heard[l].disposed
                => heard[l].times = 0 /\ l \notin Range(listeners)
    /\ \A l \in Range(listeners) :
          heard[l].subscribed /\ ~heard[l].disposed

\* a step of a start call notifies twice while one listener is subscribed
\* and the disposer of another has been called
C24_Witness ==
    \E l, x \in Listeners :
        /\ heard[l].via = "notify" /\ heard[l].times = 2
        /\ heard[x].disposed

\* C25: notifications are synchronous, in subscription order, on every
\* change: whenever the coordinator is suspended or idle, every listener of
\* the set holds a state equal to the coordinator's state, and the listeners
\* a step invoked were invoked in the order in which they subscribed.
C25_ListenersHoldCurrentState ==
    \A l \in Range(listeners) :
        /\ heard[l].state = GetState
        /\ heard[l].via = "notify" => heard[l].pos = IndexOf(listeners, l)

\* occurrences of x in s
Count(s, x) == Cardinality({i \in 1..Len(s) : s[i] = x})

\* C26: notifications expire by themselves: every occurrence of a message in
\* the notification list has a pending timer for that message, so a message
\* is gone from the list once the timers of its addNotification calls have
\* run, and the list is empty once every timer has run; for any sequence of
\* addNotification and clearNotification calls, repeated messages included,
\* and any order of the timeouts.
C26_NotificationsExpire ==
    /\ \A msg \in Messages :
          Count(notifications, msg) <= Count(timers, msg)
    /\ timers = <<>> => notifications = <<>>

\* the last pending timer has run and found nothing to remove: its message
\* was cleared by hand, or removed by the timer of an identical message
C26_Witness ==
    /\ last.call.op = "timeout"
    /\ ~last.call.found
    /\ timers = <<>>
    /\ notifications = <<>>

\* C27: clearNotification of a message that is not in the list changes no
\* field of the coordinator, removes no timer, and invokes no listener; a
\* clearNotification that finds its message removes one occurrence and
\* notifies once; so when the message occurs once, a second clearNotification
\* of it is such a no-op and two calls leave the state of one.
C27_ClearIdempotent ==
    /\ [](\A msg \in Messages :
             /\ msg \notin Range(notifications)
                   => Cleared(notifications, msg) = notifications
             /\ Count(notifications, msg) = 1
                   => Cleared(Cleared(notifications, msg), msg)
                         = Cleared(notifications, msg))
    /\ [][last'.call.op = "clearNotification"
             => IF last'.call.found
                   THEN /\ Count(notifications', last'.call.message)
                              = Count(notifications, last'.call.message) - 1
                        /\ Len(notifications') = Len(notifications) - 1
                        /\ last'.notifyCalls = 1
                        /\ \A l \in Range(listeners) :
                              heard'[l].times = 1
                                 /\ heard'[l].state = GetState'
                        /\ UNCHANGED timers
                   ELSE /\ last'.call.message \notin Range(notifications)
                        /\ GetState' = GetState
                        /\ UNCHANGED <<timers, listeners>>
                        /\ last'.notifyCalls = 0
                        /\ \A l \in Listeners :
                              /\ heard'[l].times = 0
                              /\ heard'[l].state = heard[l].state
         ]_vars

\* a message that is not in the list was cleared while a listener was
\* subscribed and another message was in the list
C27_Witness ==
    /\ last.call.op = "clearNotification"
    /\ ~last.call.found
    /\ listeners # <<>>
    /\ notifications # <<>>

\* C31: the two kinds of one item are independent: while transfers of
\* (X, video) and (X, dvw) are both running, both have their entry in the
\* active map; while one of them runs and the other does not, the guard of a
\* start call for the other finds nothing and accepts; and the step in which
\* one of them ends leaves the entry of the other in the map.
C31_KindsIndependent ==
    /\ [](\A m \in MatchIds, c1, c2 \in Calls :
             /\ (Transferring(c1, m, "video") /\ Transferring(c2, m, "dvw"))
                   => /\ HasEntryFor(activeDownloads, m, "video")
                      /\ HasEntryFor(activeDownloads, m, "dvw")
             /\ \A k \in ContentTypes :
                   (/\ Transferring(c1, m, k)
                    /\ \A c \in Calls :
                          ~Transferring(c, m, CHOOSE o \in ContentTypes : o # k))
                   => ~IsDownloadingContent(m, CHOOSE o \in ContentTypes : o # k))
    /\ [][\A m \in MatchIds, c1, c2 \in Calls, k \in ContentTypes :
             (/\ Transferring(c1, m, k)
              /\ Transferring(c2, m, CHOOSE o \in ContentTypes : o # k)
              /\ calls'[c1].pc # "exec"
              /\ calls'[c2].pc = "exec")
             => HasEntryFor(activeDownloads', m,
                            CHOOSE o \in ContentTypes : o # k)
         ]_vars

\* C34: no completion record is lost: every transfer that has completed with
\* success (it is in the list of recent completions) has the record of its
\* pair in the persisted ledger, however the ledger writes of the start calls
\* interleave.
C34_NoRecordLost ==
    \A i \in 1..Len(recentCompletions) :
        RecordsOf(ledger, recentCompletions[i].matchId,
                  recentCompletions[i].contentType) # {}

\* C35: the uniqueness per pair covers the batch: while bulkDownload has a
\* transfer of a pair under way, no transfer of the coordinator for the same
\* pair writes to the same target file, and the batch does not begin the
\* transfer of a pair that the coordinator reports as downloading.
C35_BatchRespectsActivePairs ==
    /\ [](batch.pc = "fetch"
             => ~\E c \in Calls :
                    /\ Transferring(c, PairMatch(batch), PairType(batch))
                    /\ calls[c].exec # "error"
                    /\ ExecOutcome(c).filepath = PairPath(batch))
    /\ [][(batch.pc # "fetch" /\ batch'.pc = "fetch")
             => ~IsDownloadingContent(PairMatch(batch), PairType(batch))
         ]_vars

\* C36: a notification leaves the list only by its own timeout or by a
\* clearNotification.  When more timers are pending for a message than the
\* list has occurrences of it, the surplus timers are those of notifications
\* that were cleared by hand, and they are the oldest ones (clearNotification
\* removes the oldest occurrence): the oldest pending timer of the message
\* then removes nothing when it runs.
C36_OwnTimeoutOnly ==
    [][(/\ last'.call.op = "timeout"
        /\ last'.call.timer = IndexOf(timers, last'.call.message)
        /\ Count(timers, last'.call.message)
              > Count(notifications, last'.call.message))
          => notifications' = notifications
      ]_vars

\* C37: the progress callbacks of a transfer update the entry of that
\* transfer only: the progress of an entry changes only in a step of the
\* Executor of the call that inserted it, or when the throttle timer of that
\* call runs while its Executor is still running; and a throttle timer that
\* runs adds no entry to the active map.
C37_ProgressOfOwnTransferOnly ==
    [][/\ \A key \in DOMAIN activeDownloads :
             (/\ key \in DOMAIN activeDownloads'
              /\ activeDownloads'[key].call = activeDownloads[key].call
              /\ activeDownloads'[key].progress
                    # activeDownloads[key].progress)
             => LET c == activeDownloads[key].call
                IN  \/ calls'[c].exec # calls[c].exec
                    \/ /\ thr.lastArgs = <<c>>
                       /\ thr'.timeoutId = NoTimer
                       /\ calls[c].pc = "exec"
       /\ (thr.timeoutId # NoTimer /\ thr'.timeoutId = NoTimer)
             => DOMAIN activeDownloads' = DOMAIN activeDownloads
      ]_vars

\* C38: two different items never have the same target filepath in the
\* download directory, so a download that returned success, and every ledger
\* record, belongs to an item whose own content was fetched.
C38_DistinctTargets ==
    /\ VideoFilepath(DefaultDir, xfer.items[1])
          # VideoFilepath(DefaultDir, xfer.items[2])
    /\ (xfer.pc = "mark") => xfer.items[xfer.at].id \in xfer.fetched
    /\ \A i \in DOMAIN ledger : ledger[i].matchId \in xfer.fetched

\* C39: every progress snapshot the callback receives has a percent between
\* 0 and 100 and, when totalBytes is positive, no more bytes downloaded than
\* totalBytes; and its percent is 100 when its status is 'completed'.
C39_SnapshotBounds ==
    /\ xfer.seen.percent >= 0
    /\ xfer.seen.percent <= 100
    /\ xfer.seen.totalBytes > 0
          => xfer.seen.bytesDownloaded <= xfer.seen.totalBytes
    /\ xfer.seen.status = "completed" => xfer.seen.percent = 100

(***************************************************************************)
(* Properties of the Executor                                              *)
(***************************************************************************)
\* C12: when the target exists with content at the pre-check, the call
\* returns success with the target's path, has issued no network request and
\* leaves the file as it is.
C12_SkipBeforeNetwork ==
    [][(xfer.pc = "stat" /\ files[ExecPath(xfer.kind)] = "valid")
          => /\ xfer'.pc = "done"
             /\ xfer'.result = Success(ExecPath(xfer.kind))
             /\ xfer'.requests = 0
             /\ files' = files
      ]_vars

\* the call has returned from its pre-check
C12_Witness ==
    /\ xfer.pc = "done"
    /\ xfer.result.success
    /\ xfer.requests = 0
    /\ xfer.seen = Progress("pending", 0)
    /\ files[ExecPath(xfer.kind)] = "valid"

\* C13: once a call has returned a failure result, whatever failed after the
\* pre-check, the target does not exist.
C13_CleanupOnFailure ==
    (xfer.pc = "done" /\ ~xfer.result.success)
       => files[ExecPath(xfer.kind)] = "missing"

\* C14: once a call has returned success, the target exists with its whole,
\* non-empty content.
C14_SuccessLeavesWholeFile ==
    (xfer.pc = "done" /\ xfer.result.success)
       => files[ExecPath(xfer.kind)] = "valid"

\* C15: the byte counts the progress callback receives never decrease, and
\* when the call has returned success the last one is the sum of the chunk
\* sizes.
C15_ProgressMonotone ==
    /\ [][xfer'.seen.bytes >= xfer.seen.bytes]_vars
    /\ []((xfer.pc = "done" /\ xfer.result.success)
             => xfer.seen.bytes = xfer.bytes)

\* a streamed transfer of several chunks has succeeded, and the throttle
\* delivered a coalesced update on the way
C15_Witness ==
    /\ xfer.pc = "done"
    /\ xfer.result.success
    /\ xfer.chunks > 1
    /\ xfer.trailed
    /\ xfer.seen = Progress("completed", xfer.bytes)

\* C28: whatever the network and the file system do, nothing is thrown out
\* of a call of downloadVideo or downloadDVW: the call ends with a result,
\* and no exception leaves it on another way.
C28_NeverThrows ==
    /\ ~xfer.uncaught
    /\ xfer.pc = "done"
          => \/ xfer.result.success /\ xfer.result.filepath # NoPath
             \/ ~xfer.result.success /\ xfer.result.error # ""

(***************************************************************************)
(* Properties of the throttle                                              *)
(***************************************************************************)
\* C16: any two consecutive invocations of fn are at least Wait apart.
C16_InvocationsWaitApart ==
    \A i \in 1..(Len(thr.invoked) - 1) :
       thr.invoked[i + 1].at - thr.invoked[i].at >= Wait

\* C17: the arguments fn is invoked with are a subsequence of the arguments
\* of the calls, in the order of the calls; and once the calls have stopped
\* and no timer is pending, the last invocation carried the arguments of the
\* last call.
C17_TrailingInOrder ==
    /\ \A i \in 1..(Len(thr.invoked) - 1) :
          thr.invoked[i].arg < thr.invoked[i + 1].arg
    /\ (thr.calls > 0 /\ thr.timeoutId = NoTimer)
          => thr.invoked[Len(thr.invoked)].arg = thr.calls

(***************************************************************************)
(* Properties of the batch                                                 *)
(***************************************************************************)
\* the (item, selected kind) pairs of a batch, items first, kinds within
RECURSIVE PairsOf(_)
PairsOf(its) ==
    IF its = <<>> THEN <<>>
    ELSE [n \in 1..Len(Head(its).selectedTypes) |->
             <<Head(its).match, Head(its).selectedTypes[n]>>]
         \o PairsOf(Tail(its))

\* the number of results made by one of the given return statements
Via(rs, how) == Cardinality({n \in 1..Len(rs) : rs[n].via \in how})

ValidRecord(m, k) ==
    /\ ledgerFile = "ok"
    /\ FindRecord(ledger, m, k) # 0
    /\ files[ledger[FindRecord(ledger, m, k)].filepath] = "valid"

\* C19: a pair whose content is available and for which the ledger holds a
\* valid record, wherever the record's file is, is skipped as already
\* downloaded without a network request.
C19_SkipsRecordedPairs ==
    [][(batch.pc = "stat" /\ ValidRecord(PairMatch(batch), PairType(batch)))
          => /\ batch'.requests = batch.requests
             /\ Len(batch'.results) = Len(batch.results) + 1
             /\ batch'.results[Len(batch'.results)].skipReason
                   = "Already downloaded"
      ]_vars

\* C20: every pair is handed to downloadSingleContent once, items in the
\* outer loop and kinds in the inner; the results are those of the pairs
\* begun, in that order; a batch does not return before every pair has its
\* result, whatever the results were.
C20_FailureDoesNotAbort ==
    LET pairs == PairsOf(batch.items)
        rs == batch.results
    IN  /\ Len(rs) <= Len(batch.begun)
        /\ Len(batch.begun) <= Len(pairs)
        /\ \A n \in 1..Len(batch.begun) :
              LET at == batch.begun[n]
              IN  <<batch.items[at[1]].match,
                    batch.items[at[1]].selectedTypes[at[2]]>> = pairs[n]
        /\ \A n \in 1..Len(rs) :
              <<rs[n].matchId, rs[n].contentType>> = pairs[n]
        /\ batch.pc = "done" => Len(rs) = Len(pairs)

\* a batch has returned whose first pair failed and whose later pairs have
\* their results
C20_Witness ==
    /\ batch.pc = "done"
    /\ Len(batch.results) > 2
    /\ batch.results[1].via = "transfer failed"
    /\ batch.results[2].via = "ledger failed"
    /\ batch.results[3].via = "downloaded"

\* C21: while a batch is in its loops the batch progress is there, with
\* total the number of pairs and current the number of pairs that have their
\* result (0 at the start, one more with every pair, never above total); once
\* bulkDownload has ended, by returning or by throwing, the batch progress is
\* null.
C21_BatchProgressLifecycle ==
    /\ batch.pc \in {"loop", "stat", "fetch", "mark"}
          => /\ batchProgress =
                   <<[current |-> Len(batch.results),
                      total |-> Len(PairsOf(batch.items))]>>
             /\ Len(batch.results) <= Len(PairsOf(batch.items))
    /\ batch.pc \in {"done", "rejected"} => batchProgress = <<>>

\* C29: a batch adds one notification, the summary of its counts, when all
\* pairs have their result and the batch progress is cleared; no notification
\* is there before, whatever the pairs' results.
C29_OneSummaryNotification ==
    /\ batch.pc # "done" => notifications = <<>>
    /\ batch.pc = "done"
          => /\ notifications =
                   <<BulkMsg(SummaryOf(Len(PairsOf(batch.items)),
                                       batch.results))>>
             /\ Len(batch.results) = Len(PairsOf(batch.items))
             /\ batchProgress = <<>>

\* a batch with a pair that failed has returned
C29_Witness ==
    /\ batch.pc = "done"
    /\ batch.summary.failed > 0
    /\ batch.summary.downloaded > 0
    /\ Len(notifications) = 1

\* C30: at most one pair is in progress: a pair is handed to
\* downloadSingleContent only when every pair begun before has its result.
C30_PairsSequential ==
    /\ Len(batch.begun) <= Len(batch.results) + 1
    /\ Len(batch.begun) = Len(batch.results) + 1
          <=> batch.pc \in {"stat", "fetch", "mark"}

\* the transfer of a later pair is in progress, the pairs before it have
\* their results
C30_Witness ==
    /\ batch.pc = "fetch"
    /\ Len(batch.results) > 1
    /\ Len(batch.begun) = Len(batch.results) + 1

\* C22: in the second run of a batch, a pair that the first run downloaded
\* or skipped as already downloaded is skipped as already downloaded, without
\* a network request and without a change to the files or the ledger.
C22_SecondRunSkips ==
    [][(/\ batch.run = 2
        /\ batch.pc = "stat"
        /\ batch.first[Len(batch.results) + 1].via \in {"downloaded", "exists"})
          => /\ batch'.requests = batch.requests
             /\ Len(batch'.results) = Len(batch.results) + 1
             /\ batch'.results[Len(batch'.results)].via = "exists"
             /\ files' = files
             /\ ledger' = ledger
      ]_vars

====
